---- MODULE Spec2Model ----
(***************************************************************************)
(* Cyber-Rakshak: the incident-reporting backend as a state machine.       *)
(*                                                                         *)
(* The state is the content of the tables of the migration (auth.users,    *)
(* profiles, user_roles, incidents, incident_files, audit_logs and         *)
(* storage.objects).  Every client request is one action: it is evaluated  *)
(* by the row-level-security policies of the migration against the         *)
(* current tables, and `last` records the request and its outcome.         *)
(***************************************************************************)
EXTENDS Naturals, Sequences, FiniteSets, Bags, TLC

(***************************************************************************)
(* Bounds of the model.                                                    *)
(***************************************************************************)
MaxIncidents == 2
MaxFiles == 2
MaxAudit == 2
MaxClock == 2
MaxAttach == 2
MaxLookups == 2

(***************************************************************************)
(* Values.  NULL is SQL's NULL; SERVICE is the platform's service role,    *)
(* which is no client and bypasses row-level security.                     *)
(***************************************************************************)
NULL == "NULL"
SERVICE == "service_role"
Users == {"u1", "u2"}
Callers == Users \cup {NULL}

app_role == {"user", "admin", "cert_admin"}
incident_status == {"submitted", "under_review", "investigating", "resolved", "closed"}
threat_level == {"low", "medium", "high", "critical"}
incident_type == {"phishing", "malware", "fraud", "espionage", "data_breach", "other"}

IncidentIds == 1..MaxIncidents
FileIds == 1..MaxFiles

VARIABLES
  users,          \* auth.users: the identities that exist
  profiles,       \* public.profiles: a set of rows
  user_roles,     \* public.user_roles: a bag of rows [user_id, role, assigned_by]
  incidents,      \* public.incidents: id -> row
  incident_files, \* public.incident_files: id -> row
  audit_logs,     \* public.audit_logs: a bag of rows [user_id, action]
  objects,        \* storage.objects: a set of rows [bucket_id, name]
  last,           \* the last request and its outcome
  now,            \* the time, as NOW() and Date.now() read it
  session,        \* the identity signed in at the browser, or NULL
  submit,         \* the page ReportIncident: the state of handleSubmit
  dash,           \* the page AdminDashboard: its state
  auth,           \* the page Auth: the state of handleAuth
  nav             \* the component Navbar: its state and its pending callbacks

vars == <<users, profiles, user_roles, incidents, incident_files, audit_logs, objects,
          last, now, session, submit, dash, auth, nav>>

\* the server's clock advances
Tick ==
  /\ now < MaxClock
  /\ now' = now + 1
  /\ UNCHANGED <<users, profiles, user_roles, incidents, incident_files, audit_logs,
                 objects, last, session, submit, dash, auth, nav>>

\* what a request sent to the backend leaves alone: the clock and the pages
Request(A) == A /\ UNCHANGED <<now, session, submit, dash, auth, nav>>

(***************************************************************************)
(* SQL's three-valued comparison, as a policy uses it: a comparison with   *)
(* NULL is NULL, and a policy whose expression is NULL grants nothing.     *)
(***************************************************************************)
SqlEq(a, b) == a # NULL /\ b # NULL /\ a = b

Req(cmd, tbl, uid, key, res) ==
  [cmd |-> cmd, tbl |-> tbl, uid |-> uid, key |-> key, res |-> res]

(***************************************************************************)
(* user_roles as a bag: the rows and their number.                         *)
(***************************************************************************)
RoleRow(u, r, by) == [user_id |-> u, role |-> r, assigned_by |-> by]

RECURSIVE SumCopies(_, _)
SumCopies(B, S) ==
  IF S = {} THEN 0
  ELSE LET x == CHOOSE y \in S : TRUE
       IN CopiesIn(x, B) + SumCopies(B, S \ {x})

\* the number of user_roles rows of bag B with (user_id, role) = (u, r)
CountRoles(B, u, r) ==
  SumCopies(B, {x \in BagToSet(B) : x.user_id = u /\ x.role = r})

BagAdd(B, x) == B (+) SetToBag({x})
BagRemove(B, x) == B (-) SetToBag({x})
BagSize(B) == SumCopies(B, BagToSet(B))
\* the rows of bag B whose user_id is not I
RolesNotOf(B, I) ==
  LET D == {x \in BagToSet(B) : x.user_id # I} IN [x \in D |-> B[x]]

(***************************************************************************)
(* has_role(_user_id, _role): EXISTS (SELECT 1 FROM user_roles WHERE ...). *)
(***************************************************************************)
has_role(_user_id, _role) ==
  \E x \in BagToSet(user_roles) : SqlEq(x.user_id, _user_id) /\ x.role = _role

IsPrivileged(uid) == has_role(uid, "admin") \/ has_role(uid, "cert_admin")

(***************************************************************************)
(* The row-level-security policies.  Each is the expression of its CREATE  *)
(* POLICY statement, over the caller auth.uid() and the row.               *)
(***************************************************************************)
RECURSIVE Permitted(_, _, _, _)

\* profiles
UsersCanViewTheirOwnProfile(uid, row) == SqlEq(uid, row.id)
UsersCanUpdateTheirOwnProfileAdminToo(uid, row) ==
  SqlEq(uid, row.id) \/ has_role(uid, "admin")
UsersCanUpdateTheirOwnProfile(uid, row) == SqlEq(uid, row.id)
UsersCanInsertTheirOwnProfile(uid, row) == SqlEq(uid, row.id)
AdminsCanViewAllProfiles(uid, row) ==
  has_role(uid, "admin") \/ has_role(uid, "cert_admin")

\* user_roles
UsersCanViewTheirOwnRoles(uid, row) == SqlEq(uid, row.user_id)
AdminsCanManageAllRolesAdminToo(uid, row) ==
  has_role(uid, "admin") \/ has_role(uid, "cert_admin")
AdminsCanManageAllRoles(uid, row) == has_role(uid, "cert_admin")

\* incidents
UsersCanViewTheirOwnIncidents(uid, row) == SqlEq(uid, row.user_id)
UsersCanCreateIncidentsAdminToo(uid, row) ==
  SqlEq(uid, row.user_id) \/ has_role(uid, "admin") \/ has_role(uid, "cert_admin")
UsersCanCreateIncidents(uid, row) == SqlEq(uid, row.user_id)
UsersCanUpdateTheirOwnIncidents(uid, row) == SqlEq(uid, row.user_id)
AdminsCanViewAllIncidents(uid, row) ==
  has_role(uid, "admin") \/ has_role(uid, "cert_admin")
AdminsCanUpdateAllIncidentsAdminOnly(uid, row) == has_role(uid, "admin")
AdminsCanUpdateAllIncidents(uid, row) ==
  has_role(uid, "admin") \/ has_role(uid, "cert_admin")

\* incident_files: the subquery reads incidents as the caller, so it sees the
\* incidents the caller may select
OwnsParentIncident(uid, row) ==
  \E i \in DOMAIN incidents :
    /\ Permitted("incidents", "SELECT", uid, incidents[i])
    /\ i = row.incident_id
    /\ SqlEq(incidents[i].user_id, uid)
UsersCanViewFilesForTheirIncidents(uid, row) == OwnsParentIncident(uid, row)
UsersCanUploadFilesToTheirIncidentsAdminToo(uid, row) ==
  OwnsParentIncident(uid, row) \/ has_role(uid, "admin") \/ has_role(uid, "cert_admin")
UsersCanUploadFilesToTheirIncidents(uid, row) == OwnsParentIncident(uid, row)
AdminsCanViewAllIncidentFiles(uid, row) ==
  has_role(uid, "admin") \/ has_role(uid, "cert_admin")

\* audit_logs
AdminsCanViewAuditLogsAdminToo(uid, row) ==
  has_role(uid, "admin") \/ has_role(uid, "cert_admin")
AdminsCanViewAuditLogs(uid, row) == has_role(uid, "cert_admin")
SystemCanInsertAuditLogs(uid, row) == TRUE

\* storage.objects: (storage.foldername(name))[1] is the first folder of the
\* key, NULL for a key without a folder
EvidenceBucket == "incident-evidence"
foldername(name) == SubSeq(name, 1, Len(name) - 1)
FirstFolder(name) == IF Len(foldername(name)) >= 1 THEN foldername(name)[1] ELSE NULL
UsersCanUploadEvidenceForTheirIncidentsAdminToo(uid, row) ==
  /\ row.bucket_id = EvidenceBucket
  /\ (SqlEq(uid, FirstFolder(row.name)) \/ has_role(uid, "admin") \/ has_role(uid, "cert_admin"))
UsersCanUploadEvidenceForTheirIncidents(uid, row) ==
  row.bucket_id = EvidenceBucket /\ SqlEq(uid, FirstFolder(row.name))
UsersCanViewTheirOwnEvidence(uid, row) ==
  row.bucket_id = EvidenceBucket /\ SqlEq(uid, FirstFolder(row.name))
AdminsCanViewAllEvidence(uid, row) ==
  /\ row.bucket_id = EvidenceBucket
  /\ (has_role(uid, "admin") \/ has_role(uid, "cert_admin"))

Pol(name, tbl, cmd) == [name |-> name, tbl |-> tbl, cmd |-> cmd]

\* every CREATE POLICY of the migration: its name, table and command
Policies == {
  Pol("Users can view their own profile", "profiles", "SELECT"),
  Pol("Users can update their own profile", "profiles", "UPDATE"),
  Pol("Users can insert their own profile", "profiles", "INSERT"),
  Pol("Admins can view all profiles", "profiles", "SELECT"),
  Pol("Users can view their own roles", "user_roles", "SELECT"),
  Pol("Admins can manage all roles", "user_roles", "ALL"),
  Pol("Users can view their own incidents", "incidents", "SELECT"),
  Pol("Users can create incidents", "incidents", "INSERT"),
  Pol("Users can update their own incidents", "incidents", "UPDATE"),
  Pol("Admins can view all incidents", "incidents", "SELECT"),
  Pol("Admins can update all incidents", "incidents", "UPDATE"),
  Pol("Users can view files for their incidents", "incident_files", "SELECT"),
  Pol("Users can upload files to their incidents", "incident_files", "INSERT"),
  Pol("Admins can view all incident files", "incident_files", "SELECT"),
  Pol("Admins can view audit logs", "audit_logs", "SELECT"),
  Pol("System can insert audit logs", "audit_logs", "INSERT"),
  Pol("Users can upload evidence for their incidents", "storage.objects", "INSERT"),
  Pol("Users can view their own evidence", "storage.objects", "SELECT"),
  Pol("Admins can view all evidence", "storage.objects", "SELECT") }

\* the expression of policy `name` for caller uid and row
Holds(name, uid, row) ==
  CASE name = "Users can view their own profile" -> UsersCanViewTheirOwnProfile(uid, row)
    [] name = "Users can update their own profile" -> UsersCanUpdateTheirOwnProfile(uid, row)
    [] name = "Users can insert their own profile" -> UsersCanInsertTheirOwnProfile(uid, row)
    [] name = "Admins can view all profiles" -> AdminsCanViewAllProfiles(uid, row)
    [] name = "Users can view their own roles" -> UsersCanViewTheirOwnRoles(uid, row)
    [] name = "Admins can manage all roles" -> AdminsCanManageAllRoles(uid, row)
    [] name = "Users can view their own incidents" -> UsersCanViewTheirOwnIncidents(uid, row)
    [] name = "Users can create incidents" -> UsersCanCreateIncidents(uid, row)
    [] name = "Users can update their own incidents" -> UsersCanUpdateTheirOwnIncidents(uid, row)
    [] name = "Admins can view all incidents" -> AdminsCanViewAllIncidents(uid, row)
    [] name = "Admins can update all incidents" -> AdminsCanUpdateAllIncidents(uid, row)
    [] name = "Users can view files for their incidents" -> UsersCanViewFilesForTheirIncidents(uid, row)
    [] name = "Users can upload files to their incidents" -> UsersCanUploadFilesToTheirIncidents(uid, row)
    [] name = "Admins can view all incident files" -> AdminsCanViewAllIncidentFiles(uid, row)
    [] name = "Admins can view audit logs" -> AdminsCanViewAuditLogs(uid, row)
    [] name = "System can insert audit logs" -> SystemCanInsertAuditLogs(uid, row)
    [] name = "Users can upload evidence for their incidents" -> UsersCanUploadEvidenceForTheirIncidents(uid, row)
    [] name = "Users can view their own evidence" -> UsersCanViewTheirOwnEvidence(uid, row)
    [] name = "Admins can view all evidence" -> AdminsCanViewAllEvidence(uid, row)

(***************************************************************************)
(* Row-level security is enabled on every table: a command on a row is     *)
(* permitted when some policy of the table for that command (or FOR ALL)   *)
(* holds, and denied when none does.  A policy written with USING alone    *)
(* checks the new row of an INSERT or UPDATE with the same expression.     *)
(***************************************************************************)
PermittedAnyCommand(tbl, cmd, uid, row) ==
  \E p \in Policies : p.tbl = tbl /\ Holds(p.name, uid, row)

Permitted(tbl, cmd, uid, row) ==
  \E p \in Policies :
    /\ p.tbl = tbl
    /\ p.cmd \in {cmd, "ALL"}
    /\ Holds(p.name, uid, row)

\* an UPDATE or DELETE that names its row in a WHERE clause reads the row, so
\* it touches only rows the caller may also select
Touchable(tbl, cmd, uid, row) ==
  Permitted(tbl, "SELECT", uid, row) /\ Permitted(tbl, cmd, uid, row)

(***************************************************************************)
(* Identity bootstrap: handle_new_user, run by the AFTER INSERT trigger    *)
(* on_auth_user_created inside the transaction that inserts the identity.  *)
(* `fault` is the statement of the function that raises an error, if any   *)
(* ("none", "profile" or "role"); a primary-key or unique conflict raises  *)
(* one as well.  The result carries the tables as the function left them.  *)
(***************************************************************************)
COALESCEFirst(a, b) == a

COALESCE(a, b) == IF a # NULL THEN a ELSE b

ProfileRow(id, full_name) ==
  [id |-> id, full_name |-> full_name, rank |-> NULL, unit |-> NULL, phone |-> NULL,
   created_at |-> now, updated_at |-> now]

\* the columns that the function's INSERT INTO profiles names, and their values
NewProfileValuesWithForm(NEW_) ==
  [id |-> NEW_.id, full_name |-> COALESCE(NEW_.raw_user_meta_data.full_name, "User"),
   rank |-> NEW_.raw_user_meta_data.rank, unit |-> NEW_.raw_user_meta_data.unit]

NewProfileValues(NEW_) ==
  [id |-> NEW_.id, full_name |-> COALESCE(NEW_.raw_user_meta_data.full_name, "User")]

\* the row inserted: the named columns, the others at their defaults
NewProfile(NEW_) ==
  LET v == NewProfileValues(NEW_)
      d == ProfileRow(v.id, v.full_name)
  IN [c \in DOMAIN d |-> IF c \in DOMAIN v THEN v[c] ELSE d[c]]

handle_new_userNoRole(NEW_, fault) ==
  LET row == NewProfile(NEW_)
  IN IF fault = "profile" \/ (\E p \in profiles : p.id = NEW_.id)
     THEN [ok |-> FALSE, profiles |-> profiles, user_roles |-> user_roles]
     ELSE [ok |-> TRUE, profiles |-> profiles \cup {row}, user_roles |-> user_roles]

handle_new_user(NEW_, fault) ==
  LET row == NewProfile(NEW_)
      role == RoleRow(NEW_.id, "user", NULL)
  IN IF fault = "profile" \/ (\E p \in profiles : p.id = NEW_.id)
     THEN [ok |-> FALSE, profiles |-> profiles, user_roles |-> user_roles]
     ELSE IF fault = "role" \/ CountRoles(user_roles, NEW_.id, "user") > 0
     THEN [ok |-> FALSE, profiles |-> profiles \cup {row}, user_roles |-> user_roles]
     ELSE [ok |-> TRUE, profiles |-> profiles \cup {row},
           user_roles |-> BagAdd(user_roles, role)]

\* the outcome of INSERT INTO auth.users with the trigger's result t: an error
\* raised by the trigger aborts the transaction, the insert of the identity
\* and the trigger's own writes included
on_auth_user_createdNoRollback(I, t) ==
  [users |-> users \cup {I}, profiles |-> t.profiles, user_roles |-> t.user_roles,
   res |-> IF t.ok THEN "done" ELSE "error"]

on_auth_user_created(I, t) ==
  IF t.ok
  THEN [users |-> users \cup {I}, profiles |-> t.profiles,
        user_roles |-> t.user_roles, res |-> "done"]
  ELSE [users |-> users, profiles |-> profiles, user_roles |-> user_roles,
        res |-> "error"]

\* sign-up: the identity provider inserts identity I with metadata meta
CreateIdentity(I, meta, fault) ==
  /\ I \notin users
  /\ LET t == handle_new_user([id |-> I, raw_user_meta_data |-> meta], fault)
         out == on_auth_user_created(I, t)
     IN /\ users' = out.users
        /\ profiles' = out.profiles
        /\ user_roles' = out.user_roles
        /\ last' = Req("INSERT", "auth.users", NULL,
                       [id |-> I, raw_user_meta_data |-> meta], out.res)
  /\ UNCHANGED <<incidents, incident_files, audit_logs, objects>>

(***************************************************************************)
(* Deletion of an identity by the service role.  The foreign keys declared *)
(* ON DELETE CASCADE remove the identity's rows; the others (assigned_by,  *)
(* assigned_to, audit_logs.user_id) refuse the deletion while a row that   *)
(* survives the cascade still references the identity.                     *)
(***************************************************************************)
CascadedIncidents(I) == {i \in DOMAIN incidents : incidents[i].user_id = I}

StillReferencedNever(I) == FALSE

StillReferenced(I) ==
  \/ \E x \in BagToSet(user_roles) : x.assigned_by = I /\ x.user_id # I
  \/ \E i \in DOMAIN incidents : incidents[i].assigned_to = I /\ incidents[i].user_id # I
  \/ \E a \in BagToSet(audit_logs) : a.user_id = I

Restrict(f, S) == [x \in S |-> f[x]]

DeleteIdentity(I) ==
  /\ I \in users
  /\ IF StillReferenced(I)
     THEN /\ last' = Req("DELETE", "auth.users", SERVICE, [id |-> I], "error")
          /\ UNCHANGED <<users, profiles, user_roles, incidents, incident_files>>
     ELSE /\ users' = users \ {I}
          /\ profiles' = {p \in profiles : p.id # I}
          /\ user_roles' = RolesNotOf(user_roles, I)
          /\ incidents' = Restrict(incidents, DOMAIN incidents \ CascadedIncidents(I))
          /\ incident_files' =
               Restrict(incident_files,
                        {f \in DOMAIN incident_files :
                           incident_files[f].incident_id \notin CascadedIncidents(I)})
          /\ last' = Req("DELETE", "auth.users", SERVICE, [id |-> I], "done")
  /\ UNCHANGED <<audit_logs, objects>>

(***************************************************************************)
(* Client requests on user_roles.                                          *)
(***************************************************************************)
\* NOT NULL, the enum, the foreign keys and UNIQUE (user_id, role)
UserRoleAccepted(B, row) ==
  /\ row.user_id \in users
  /\ row.role \in app_role
  /\ row.assigned_by \in users \cup {NULL}
  /\ CountRoles(B, row.user_id, row.role) = 0

InsertUserRole(uid, row) ==
  /\ IF Permitted("user_roles", "INSERT", uid, row) /\ UserRoleAccepted(user_roles, row)
     THEN /\ user_roles' = BagAdd(user_roles, row)
          /\ last' = Req("INSERT", "user_roles", uid, row, "done")
     ELSE /\ UNCHANGED user_roles
          /\ last' = Req("INSERT", "user_roles", uid, row, "error")
  /\ UNCHANGED <<users, profiles, incidents, incident_files, audit_logs, objects>>

SelectUserRole(uid, row) ==
  /\ BagIn(row, user_roles)
  /\ last' = Req("SELECT", "user_roles", uid, row,
                 IF Permitted("user_roles", "SELECT", uid, row) THEN "done" ELSE "none")
  /\ UNCHANGED <<users, profiles, user_roles, incidents, incident_files, audit_logs, objects>>

UpdateUserRole(uid, row, role) ==
  /\ BagIn(row, user_roles)
  /\ LET new == [row EXCEPT !.role = role]
         rest == BagRemove(user_roles, row)
     IN IF ~Touchable("user_roles", "UPDATE", uid, row)
        THEN /\ UNCHANGED user_roles
             /\ last' = Req("UPDATE", "user_roles", uid, row, "none")
        ELSE IF Permitted("user_roles", "UPDATE", uid, new) /\ UserRoleAccepted(rest, new)
        THEN /\ user_roles' = BagAdd(rest, new)
             /\ last' = Req("UPDATE", "user_roles", uid, row, "done")
        ELSE /\ UNCHANGED user_roles
             /\ last' = Req("UPDATE", "user_roles", uid, row, "error")
  /\ UNCHANGED <<users, profiles, incidents, incident_files, audit_logs, objects>>

DeleteUserRole(uid, row) ==
  /\ BagIn(row, user_roles)
  /\ IF Touchable("user_roles", "DELETE", uid, row)
     THEN /\ user_roles' = BagRemove(user_roles, row)
          /\ last' = Req("DELETE", "user_roles", uid, row, "done")
     ELSE /\ UNCHANGED user_roles
          /\ last' = Req("DELETE", "user_roles", uid, row, "none")
  /\ UNCHANGED <<users, profiles, incidents, incident_files, audit_logs, objects>>

(***************************************************************************)
(* Client requests on incidents.  An INSERT gives some columns and the     *)
(* others take their defaults; an UPDATE gives a patch of columns.         *)
(***************************************************************************)
\* the columns of the row with the given ones overriding row's
Merge(cols, row) ==
  [c \in DOMAIN row |-> IF c \in DOMAIN cols THEN cols[c] ELSE row[c]]

\* the column defaults of incidents (user_id has none)
IncidentDefaultsReviewed ==
  [user_id |-> NULL, status |-> "under_review", threat_level |-> NULL,
   assigned_to |-> NULL, priority_score |-> 0, created_at |-> now, updated_at |-> now]

IncidentDefaults ==
  [user_id |-> NULL, status |-> "submitted", threat_level |-> NULL,
   assigned_to |-> NULL, priority_score |-> 0, created_at |-> now, updated_at |-> now]

\* NOT NULL, the enums and the foreign keys of incidents
IncidentAccepted(row) ==
  /\ row.user_id \in users
  /\ row.status \in incident_status
  /\ row.threat_level \in threat_level \cup {NULL}
  /\ row.assigned_to \in users \cup {NULL}

\* the BEFORE UPDATE trigger of profiles and incidents: whatever the request
\* gave, the row is stored with the time of the update
handle_updated_atKeep(NEW_) == NEW_

handle_updated_at(NEW_) == [NEW_ EXCEPT !.updated_at = now]

\* gen_random_uuid(): an id no row has
FreshId(ids, used) == CHOOSE i \in ids \ used : \A j \in ids \ used : i <= j

InsertIncident(uid, cols) ==
  /\ DOMAIN incidents # IncidentIds
  /\ LET row == Merge(cols, IncidentDefaults)
         id == FreshId(IncidentIds, DOMAIN incidents)
         key == [id |-> id, user_id |-> row.user_id]
     IN IF Permitted("incidents", "INSERT", uid, row) /\ IncidentAccepted(row)
        THEN /\ incidents' = [i \in DOMAIN incidents \cup {id} |->
                                IF i = id THEN row ELSE incidents[i]]
             /\ last' = Req("INSERT", "incidents", uid, key, "done")
        ELSE /\ UNCHANGED incidents
             /\ last' = Req("INSERT", "incidents", uid, key, "error")
  /\ UNCHANGED <<users, profiles, user_roles, incident_files, audit_logs, objects>>

SelectIncident(uid, id) ==
  /\ id \in DOMAIN incidents
  /\ last' = Req("SELECT", "incidents", uid, [id |-> id],
                 IF Permitted("incidents", "SELECT", uid, incidents[id])
                 THEN "done" ELSE "none")
  /\ UNCHANGED <<users, profiles, user_roles, incidents, incident_files, audit_logs, objects>>

UpdateIncidentNoCheck(uid, id, patch) ==
  /\ id \in DOMAIN incidents
  /\ LET new == handle_updated_at(Merge(patch, incidents[id]))
     IN IF ~Touchable("incidents", "UPDATE", uid, incidents[id])
        THEN /\ UNCHANGED incidents
             /\ last' = Req("UPDATE", "incidents", uid, [id |-> id], "none")
        ELSE IF IncidentAccepted(new)
        THEN /\ incidents' = [incidents EXCEPT ![id] = new]
             /\ last' = Req("UPDATE", "incidents", uid, [id |-> id], "done")
        ELSE /\ UNCHANGED incidents
             /\ last' = Req("UPDATE", "incidents", uid, [id |-> id], "error")
  /\ UNCHANGED <<users, profiles, user_roles, incident_files, audit_logs, objects>>

UpdateIncident(uid, id, patch) ==
  /\ id \in DOMAIN incidents
  /\ LET new == handle_updated_at(Merge(patch, incidents[id]))
     IN IF ~Touchable("incidents", "UPDATE", uid, incidents[id])
        THEN /\ UNCHANGED incidents
             /\ last' = Req("UPDATE", "incidents", uid, [id |-> id], "none")
        ELSE IF Permitted("incidents", "UPDATE", uid, new) /\ IncidentAccepted(new)
        THEN /\ incidents' = [incidents EXCEPT ![id] = new]
             /\ last' = Req("UPDATE", "incidents", uid, [id |-> id], "done")
        ELSE /\ UNCHANGED incidents
             /\ last' = Req("UPDATE", "incidents", uid, [id |-> id], "error")
  /\ UNCHANGED <<users, profiles, user_roles, incident_files, audit_logs, objects>>

\* ON DELETE CASCADE of incident_files.incident_id
FilesNotOf(ids) ==
  Restrict(incident_files,
           {f \in DOMAIN incident_files : incident_files[f].incident_id \notin ids})

DeleteIncident(uid, id) ==
  /\ id \in DOMAIN incidents
  /\ IF Touchable("incidents", "DELETE", uid, incidents[id])
     THEN /\ incidents' = Restrict(incidents, DOMAIN incidents \ {id})
          /\ incident_files' = FilesNotOf({id})
          /\ last' = Req("DELETE", "incidents", uid, [id |-> id], "done")
     ELSE /\ UNCHANGED <<incidents, incident_files>>
          /\ last' = Req("DELETE", "incidents", uid, [id |-> id], "none")
  /\ UNCHANGED <<users, profiles, user_roles, audit_logs, objects>>

(***************************************************************************)
(* Client requests on incident_files.                                      *)
(***************************************************************************)
FileRow(incident_id, file_path) ==
  [incident_id |-> incident_id, file_path |-> file_path]

\* NOT NULL and the foreign key of incident_files
FileAccepted(row) == row.incident_id \in DOMAIN incidents

InsertIncidentFile(uid, row) ==
  /\ DOMAIN incident_files # FileIds
  /\ LET id == FreshId(FileIds, DOMAIN incident_files)
         key == [id |-> id, incident_id |-> row.incident_id]
     IN IF Permitted("incident_files", "INSERT", uid, row) /\ FileAccepted(row)
        THEN /\ incident_files' = [f \in DOMAIN incident_files \cup {id} |->
                                     IF f = id THEN row ELSE incident_files[f]]
             /\ last' = Req("INSERT", "incident_files", uid, key, "done")
        ELSE /\ UNCHANGED incident_files
             /\ last' = Req("INSERT", "incident_files", uid, key, "error")
  /\ UNCHANGED <<users, profiles, user_roles, incidents, audit_logs, objects>>

SelectIncidentFile(uid, id) ==
  /\ id \in DOMAIN incident_files
  /\ last' = Req("SELECT", "incident_files", uid, [id |-> id],
                 IF Permitted("incident_files", "SELECT", uid, incident_files[id])
                 THEN "done" ELSE "none")
  /\ UNCHANGED <<users, profiles, user_roles, incidents, incident_files, audit_logs, objects>>

UpdateIncidentFile(uid, id, patch) ==
  /\ id \in DOMAIN incident_files
  /\ LET new == Merge(patch, incident_files[id])
     IN IF ~Touchable("incident_files", "UPDATE", uid, incident_files[id])
        THEN /\ UNCHANGED incident_files
             /\ last' = Req("UPDATE", "incident_files", uid, [id |-> id], "none")
        ELSE IF Permitted("incident_files", "UPDATE", uid, new) /\ FileAccepted(new)
        THEN /\ incident_files' = [incident_files EXCEPT ![id] = new]
             /\ last' = Req("UPDATE", "incident_files", uid, [id |-> id], "done")
        ELSE /\ UNCHANGED incident_files
             /\ last' = Req("UPDATE", "incident_files", uid, [id |-> id], "error")
  /\ UNCHANGED <<users, profiles, user_roles, incidents, audit_logs, objects>>

DeleteIncidentFile(uid, id) ==
  /\ id \in DOMAIN incident_files
  /\ IF Touchable("incident_files", "DELETE", uid, incident_files[id])
     THEN /\ incident_files' = Restrict(incident_files, DOMAIN incident_files \ {id})
          /\ last' = Req("DELETE", "incident_files", uid, [id |-> id], "done")
     ELSE /\ UNCHANGED incident_files
          /\ last' = Req("DELETE", "incident_files", uid, [id |-> id], "none")
  /\ UNCHANGED <<users, profiles, user_roles, incidents, audit_logs, objects>>

(***************************************************************************)
(* Client requests on profiles.                                            *)
(***************************************************************************)
\* the primary key, its foreign key to auth.users, and NOT NULL of full_name
ProfileAccepted(rows, row) ==
  /\ row.id \in users
  /\ row.full_name # NULL
  /\ \A p \in rows : p.id # row.id

InsertProfile(uid, row) ==
  /\ IF Permitted("profiles", "INSERT", uid, row) /\ ProfileAccepted(profiles, row)
     THEN /\ profiles' = profiles \cup {row}
          /\ last' = Req("INSERT", "profiles", uid, [id |-> row.id], "done")
     ELSE /\ UNCHANGED profiles
          /\ last' = Req("INSERT", "profiles", uid, [id |-> row.id], "error")
  /\ UNCHANGED <<users, user_roles, incidents, incident_files, audit_logs, objects>>

SelectProfile(uid, id) ==
  /\ \E p \in profiles : p.id = id
  /\ LET hit == {p \in profiles : p.id = id /\ Permitted("profiles", "SELECT", uid, p)}
     IN last' = Req("SELECT", "profiles", uid, [id |-> id],
                    IF hit # {} THEN "done" ELSE "none")
  /\ UNCHANGED <<users, profiles, user_roles, incidents, incident_files, audit_logs, objects>>

UpdateProfile(uid, id, patch) ==
  /\ \E p \in profiles : p.id = id
  /\ LET old == CHOOSE p \in profiles : p.id = id
         new == handle_updated_at(Merge(patch, old))
     IN IF ~Touchable("profiles", "UPDATE", uid, old)
        THEN /\ UNCHANGED profiles
             /\ last' = Req("UPDATE", "profiles", uid, [id |-> id], "none")
        ELSE IF /\ Permitted("profiles", "UPDATE", uid, new)
                /\ ProfileAccepted(profiles \ {old}, new)
        THEN /\ profiles' = (profiles \ {old}) \cup {new}
             /\ last' = Req("UPDATE", "profiles", uid, [id |-> id], "done")
        ELSE /\ UNCHANGED profiles
             /\ last' = Req("UPDATE", "profiles", uid, [id |-> id], "error")
  /\ UNCHANGED <<users, user_roles, incidents, incident_files, audit_logs, objects>>

DeleteProfile(uid, id) ==
  /\ \E p \in profiles : p.id = id
  /\ LET hit == {p \in profiles : p.id = id /\ Touchable("profiles", "DELETE", uid, p)}
     IN /\ profiles' = profiles \ hit
        /\ last' = Req("DELETE", "profiles", uid, [id |-> id],
                       IF hit # {} THEN "done" ELSE "none")
  /\ UNCHANGED <<users, user_roles, incidents, incident_files, audit_logs, objects>>

(***************************************************************************)
(* Client requests on audit_logs.                                          *)
(***************************************************************************)
AuditRow(user_id, action) == [user_id |-> user_id, action |-> action]

\* the foreign key of audit_logs.user_id, which may be NULL
AuditAccepted(row) == row.user_id \in users \cup {NULL}

InsertAuditLog(uid, row) ==
  /\ BagSize(audit_logs) < MaxAudit
  /\ IF Permitted("audit_logs", "INSERT", uid, row) /\ AuditAccepted(row)
     THEN /\ audit_logs' = BagAdd(audit_logs, row)
          /\ last' = Req("INSERT", "audit_logs", uid, row, "done")
     ELSE /\ UNCHANGED audit_logs
          /\ last' = Req("INSERT", "audit_logs", uid, row, "error")
  /\ UNCHANGED <<users, profiles, user_roles, incidents, incident_files, objects>>

SelectAuditLog(uid, row) ==
  /\ BagIn(row, audit_logs)
  /\ last' = Req("SELECT", "audit_logs", uid, row,
                 IF Permitted("audit_logs", "SELECT", uid, row) THEN "done" ELSE "none")
  /\ UNCHANGED <<users, profiles, user_roles, incidents, incident_files, audit_logs, objects>>

UpdateAuditLog(uid, row, patch) ==
  /\ BagIn(row, audit_logs)
  /\ LET new == Merge(patch, row)
     IN IF ~Touchable("audit_logs", "UPDATE", uid, row)
        THEN /\ UNCHANGED audit_logs
             /\ last' = Req("UPDATE", "audit_logs", uid, row, "none")
        ELSE IF Permitted("audit_logs", "UPDATE", uid, new) /\ AuditAccepted(new)
        THEN /\ audit_logs' = BagAdd(BagRemove(audit_logs, row), new)
             /\ last' = Req("UPDATE", "audit_logs", uid, row, "done")
        ELSE /\ UNCHANGED audit_logs
             /\ last' = Req("UPDATE", "audit_logs", uid, row, "error")
  /\ UNCHANGED <<users, profiles, user_roles, incidents, incident_files, objects>>

DeleteAuditLog(uid, row) ==
  /\ BagIn(row, audit_logs)
  /\ IF Touchable("audit_logs", "DELETE", uid, row)
     THEN /\ audit_logs' = BagRemove(audit_logs, row)
          /\ last' = Req("DELETE", "audit_logs", uid, row, "done")
     ELSE /\ UNCHANGED audit_logs
          /\ last' = Req("DELETE", "audit_logs", uid, row, "none")
  /\ UNCHANGED <<users, profiles, user_roles, incidents, incident_files, objects>>

(***************************************************************************)
(* Client requests on storage.objects: upload (INSERT), download (SELECT), *)
(* overwrite (UPDATE) and removal (DELETE) of an object.  A key is the     *)
(* sequence of the segments of its path.                                   *)
(***************************************************************************)
ObjectRow(bucket_id, name) == [bucket_id |-> bucket_id, name |-> name]

UploadObject(uid, row) ==
  /\ IF Permitted("storage.objects", "INSERT", uid, row) /\ row \notin objects
     THEN /\ objects' = objects \cup {row}
          /\ last' = Req("INSERT", "storage.objects", uid, row, "done")
     ELSE /\ UNCHANGED objects
          /\ last' = Req("INSERT", "storage.objects", uid, row, "error")
  /\ UNCHANGED <<users, profiles, user_roles, incidents, incident_files, audit_logs>>

DownloadObject(uid, row) ==
  /\ row \in objects
  /\ last' = Req("SELECT", "storage.objects", uid, row,
                 IF Permitted("storage.objects", "SELECT", uid, row) THEN "done" ELSE "none")
  /\ UNCHANGED <<users, profiles, user_roles, incidents, incident_files, audit_logs, objects>>

\* an overwrite keeps the key and replaces the content, which the model does
\* not hold: only the outcome shows
OverwriteObject(uid, row) ==
  /\ row \in objects
  /\ last' = Req("UPDATE", "storage.objects", uid, row,
                 IF Touchable("storage.objects", "UPDATE", uid, row) THEN "done" ELSE "none")
  /\ UNCHANGED <<users, profiles, user_roles, incidents, incident_files, audit_logs, objects>>

RemoveObject(uid, row) ==
  /\ row \in objects
  /\ IF Touchable("storage.objects", "DELETE", uid, row)
     THEN /\ objects' = objects \ {row}
          /\ last' = Req("DELETE", "storage.objects", uid, row, "done")
     ELSE /\ UNCHANGED objects
          /\ last' = Req("DELETE", "storage.objects", uid, row, "none")
  /\ UNCHANGED <<users, profiles, user_roles, incidents, incident_files, audit_logs>>

\* the bucket 'incident-evidence': its size limit and the content types it takes
file_size_limit == 52428800

allowed_mime_types ==
  {"image/jpeg", "image/png", "image/gif", "video/mp4", "video/quicktime",
   "audio/mpeg", "audio/wav", "application/pdf", "text/plain", "application/zip"}

BucketAccepts(file) ==
  file.size <= file_size_limit /\ file.type \in allowed_mime_types

\* the upload of a file: the policies, the key, which must be free, and the
\* bucket's limits
PutObject(uid, row, file) ==
  /\ IF /\ Permitted("storage.objects", "INSERT", uid, row)
        /\ row \notin objects
        /\ BucketAccepts(file)
     THEN /\ objects' = objects \cup {row}
          /\ last' = Req("INSERT", "storage.objects", uid, row, "done")
     ELSE /\ UNCHANGED objects
          /\ last' = Req("INSERT", "storage.objects", uid, row, "error")
  /\ UNCHANGED <<users, profiles, user_roles, incidents, incident_files, audit_logs>>

\* a request the backend rejects before it reaches a table
Rejected(cmd, tbl, uid, key) ==
  /\ last' = Req(cmd, tbl, uid, key, "error")
  /\ UNCHANGED <<users, profiles, user_roles, incidents, incident_files, audit_logs,
                 objects>>

(***************************************************************************)
(* The initial state: a deployment the service role has seeded.  Each      *)
(* seeded identity was bootstrapped (a profile and the role 'user') and    *)
(* granted a set of further roles; the other tables are empty.             *)
(***************************************************************************)
NoRequest == Req("NONE", "none", NULL, [id |-> NULL], "none")

EmptyTable == [x \in {} |-> NULL]

SeededRoles(S, extra) ==
  SetToBag({RoleRow(u, "user", NULL) : u \in S}
           \cup {x \in {RoleRow(u, r, NULL) : u \in S, r \in {"admin", "cert_admin"}} :
                   x.role \in extra[x.user_id]})

InitTables ==
  \E S \in SUBSET Users :
    \E extra \in [Users -> SUBSET {"admin", "cert_admin"}] :
      /\ \A u \in Users \ S : extra[u] = {}
      /\ now = 0
      /\ users = S
      /\ profiles = {ProfileRow(u, "User") : u \in S}
      /\ user_roles = SeededRoles(S, extra)
      /\ incidents = EmptyTable
      /\ incident_files = EmptyTable
      /\ audit_logs = EmptyBag
      /\ objects = {}
      /\ last = NoRequest

\* the page ReportIncident before a submission, and AdminDashboard before it
\* is opened
SubmitIdle ==
  [pc |-> "idle", loading |-> FALSE, files |-> <<>>, user |-> NULL,
   incident |-> NULL, i |-> 0, key |-> <<>>, toast |-> "none", route |-> "/report"]

DashClosed ==
  [pc |-> "closed", isAdmin |-> FALSE, loading |-> TRUE, incidents |-> <<>>,
   user |-> NULL, toast |-> "none", route |-> "/admin"]

\* the page Auth as it opens, and the component Navbar before it is mounted
AuthIdle ==
  [pc |-> "idle", loading |-> FALSE, isLogin |-> TRUE, email |-> NULL,
   password |-> NULL, data |-> [full_name |-> "", rank |-> "", unit |-> ""],
   error |-> "", toast |-> "none", route |-> "/auth"]

NavUnmounted ==
  [mounted |-> FALSE, user |-> NULL, userRole |-> "user", getUser |-> "none",
   answer |-> NULL, lookups |-> <<>>]

PagesIdle ==
  submit = SubmitIdle /\ dash = DashClosed /\ auth = AuthIdle /\ nav = NavUnmounted

\* nobody is signed in and no page is open
Init == InitTables /\ session = NULL /\ PagesIdle

\* the deployment of the slices below: both identities exist, u1 holds the
\* role 'user' alone and u2 any of the four sets of further roles
InitStaffed == Init /\ users = Users /\ ~IsPrivileged("u1")

(***************************************************************************)
(* The inputs of the requests.                                             *)
(***************************************************************************)
MetaInputs ==
  {[full_name |-> NULL, rank |-> NULL, unit |-> NULL],
   [full_name |-> "Asha", rank |-> "Major", unit |-> "Signals"]}
FaultInputs == {"none", "profile", "role"}
RoleRowInputs == {RoleRow(u, r, NULL) : u \in Users, r \in app_role}
IncidentInsertInputs == {[user_id |-> u] : u \in Users \cup {NULL}}
IncidentPatchInputs == {[status |-> "under_review"], [threat_level |-> "critical"]}
FileRowInputs == {FileRow(i, "evidence") : i \in IncidentIds}
FilePatchInputs == {[file_path |-> "moved"]}
AuditRowInputs == {AuditRow(u, "login") : u \in Users \cup {NULL}}
AuditPatchInputs == {[action |-> "edited"]}
ProfileRowInputs == {ProfileRow(u, "Asha") : u \in Users}
ProfilePatchInputs == {[full_name |-> "Asha"], [id |-> "u2"]}
OwnerPatchInputs == {[user_id |-> u] : u \in Users} \cup {[status |-> "under_review"]}
ProfileIdPatchInputs == {[id |-> u] : u \in Users} \cup {[full_name |-> "Asha"]}
ProfileFormInputs == {[rank |-> "Major"], [phone |-> "100"]}
\* an UPDATE that names updated_at itself, in the past or in the future
StampInputs == {[updated_at |-> 0], [updated_at |-> MaxClock + 1]}
ObjectInputs ==
  {ObjectRow(EvidenceBucket, <<u, "1", "a.png">>) : u \in Users}
  \cup {ObjectRow(EvidenceBucket, <<"a.png">>), ObjectRow("avatars", <<"u1", "a.png">>)}

(***************************************************************************)
(* The page ReportIncident.  handleSubmit runs from one await to the next  *)
(* in one step; submit.pc is the call it waits for.  Its requests carry    *)
(* the session's identity as auth.uid().  A file is its name, split at the *)
(* dots, its content type and its size.                                    *)
(***************************************************************************)
FileInputs ==
  {[name |-> <<"shot", "png">>, type |-> "image/png", size |-> 1000],
   [name |-> <<"clip", "mp4">>, type |-> "video/mp4", size |-> file_size_limit + 1],
   [name |-> <<"tool", "exe">>, type |-> "application/x-msdownload", size |-> 1000]}

\* the incident type of the form: chosen, or still the empty string
TypeInputs == {"phishing", ""}

\* supabase.auth.getUser()
GetUser == IF session \in users THEN session ELSE NULL

\* file.name.split('.').pop()
fileExt(file) == file.name[Len(file.name)]

\* `${user.id}/${incident.id}/${Date.now()}.${fileExt}`
fileName(user, incident, file) == <<user, incident, <<now, fileExt(file)>>>>

\* the page is opened
OpenReport ==
  /\ submit.pc = "idle" /\ submit.route # "/report"
  /\ submit' = SubmitIdle
  /\ UNCHANGED <<users, profiles, user_roles, incidents, incident_files, audit_logs,
                 objects, last, now, session, dash, auth, nav>>

\* handleFileChange with one file selected
AttachFile(file) ==
  /\ submit.pc = "idle" /\ submit.route = "/report"
  /\ Len(submit.files) < MaxAttach
  /\ submit' = [submit EXCEPT !.files = Append(@, file)]
  /\ UNCHANGED <<users, profiles, user_roles, incidents, incident_files, audit_logs,
                 objects, last, now, session, dash, auth, nav>>

\* the form is submitted: handleSubmit up to its first await; the button is
\* disabled while loading (the bounded tables have room for the submission)
HandleSubmit ==
  /\ submit.pc = "idle" /\ submit.route = "/report" /\ ~submit.loading
  /\ incidents = EmptyTable
  /\ Len(submit.files) <= MaxFiles - Cardinality(DOMAIN incident_files)
  /\ submit' = [submit EXCEPT !.pc = "getUser", !.loading = TRUE, !.user = NULL,
                              !.incident = NULL, !.i = 0, !.key = <<>>]
  /\ UNCHANGED <<users, profiles, user_roles, incidents, incident_files, audit_logs,
                 objects, last, now, session, dash, auth, nav>>

\* the catch and finally blocks
Failed(sb) ==
  [sb EXCEPT !.pc = "idle", !.toast = "Failed to submit incident", !.loading = FALSE]

\* the end of the try block, and finally
Succeeded(sb) ==
  [sb EXCEPT !.pc = "idle", !.toast = "Incident reported successfully",
             !.route = "/dashboard", !.loading = FALSE]

\* the head of the loop over the files: the next file's key, or the end
NextFile(sb) ==
  IF sb.i < Len(sb.files)
  THEN [sb EXCEPT !.pc = "upload", !.i = @ + 1,
                  !.key = fileName(sb.user, sb.incident, sb.files[sb.i + 1])]
  ELSE Succeeded(sb)

\* getUser() has answered
SubmitGetUserNoCheck ==
  /\ submit.pc = "getUser"
  /\ submit' = [submit EXCEPT !.pc = "insert", !.user = GetUser]
  /\ UNCHANGED <<users, profiles, user_roles, incidents, incident_files, audit_logs,
                 objects, last, now, session, dash, auth, nav>>

SubmitGetUser ==
  /\ submit.pc = "getUser"
  /\ submit' = IF GetUser = NULL
               THEN [submit EXCEPT !.pc = "idle", !.toast = "Authentication required",
                                   !.route = "/auth", !.loading = FALSE]
               ELSE [submit EXCEPT !.pc = "insert", !.user = GetUser]
  /\ UNCHANGED <<users, profiles, user_roles, incidents, incident_files, audit_logs,
                 objects, last, now, session, dash, auth, nav>>

\* the insert of the incident has answered; type is the form's incident type,
\* which the column's enum must hold
SubmitInsertGoOn(type) ==
  /\ submit.pc = "insert"
  /\ IF type \in incident_type
     THEN InsertIncident(session, [user_id |-> submit.user])
     ELSE Rejected("INSERT", "incidents", session, [id |-> 0, user_id |-> submit.user])
  /\ submit' = NextFile([submit EXCEPT !.incident = last'.key.id])
  /\ UNCHANGED <<now, session, dash, auth, nav>>

SubmitInsert(type) ==
  /\ submit.pc = "insert"
  /\ IF type \in incident_type
     THEN InsertIncident(session, [user_id |-> submit.user])
     ELSE Rejected("INSERT", "incidents", session, [id |-> 0, user_id |-> submit.user])
  /\ submit' = IF last'.res # "done"
               THEN Failed(submit)
               ELSE NextFile([submit EXCEPT !.incident = last'.key.id])
  /\ UNCHANGED <<now, session, dash, auth, nav>>

\* the upload of the file has answered
SubmitUploadThrow ==
  /\ submit.pc = "upload"
  /\ PutObject(session, ObjectRow(EvidenceBucket, submit.key), submit.files[submit.i])
  /\ submit' = IF last'.res # "done"
               THEN Failed(submit)
               ELSE [submit EXCEPT !.pc = "record"]
  /\ UNCHANGED <<now, session, dash, auth, nav>>

SubmitUpload ==
  /\ submit.pc = "upload"
  /\ PutObject(session, ObjectRow(EvidenceBucket, submit.key), submit.files[submit.i])
  /\ submit' = IF last'.res # "done"
               THEN NextFile(submit)
               ELSE [submit EXCEPT !.pc = "record"]
  /\ UNCHANGED <<now, session, dash, auth, nav>>

\* the insert of the evidence-file row has answered; its outcome is not read
SubmitRecordByName ==
  /\ submit.pc = "record"
  /\ InsertIncidentFile(session, FileRow(submit.incident, submit.files[submit.i].name))
  /\ submit' = NextFile(submit)
  /\ UNCHANGED <<now, session, dash, auth, nav>>

SubmitRecord ==
  /\ submit.pc = "record"
  /\ InsertIncidentFile(session, FileRow(submit.incident, submit.key))
  /\ submit' = NextFile(submit)
  /\ UNCHANGED <<now, session, dash, auth, nav>>

\* the deployment of the page's slice: both identities exist, u1 holds the
\* role 'user' alone, and either is signed in, or nobody
InitSubmit ==
  /\ InitTables /\ users = Users /\ ~IsPrivileged("u1")
  /\ session \in Callers /\ PagesIdle

\* between two submissions the incident is updated through other pages
NextSubmit ==
  \/ Tick
  \/ OpenReport
  \/ \E file \in FileInputs : AttachFile(file)
  \/ HandleSubmit
  \/ SubmitGetUser
  \/ \E type \in TypeInputs : SubmitInsert(type)
  \/ SubmitUpload
  \/ SubmitRecord
  \/ /\ submit.pc = "idle"
     /\ \E uid \in Users, id \in IncidentIds, patch \in IncidentPatchInputs :
          Request(UpdateIncident(uid, id, patch))

SpecSubmit == InitSubmit /\ [][NextSubmit]_vars

\* an awaited call of the loop throws instead of answering (the promise is
\* rejected before the request is served): control passes to the catch block
SubmitUploadThrows ==
  /\ submit.pc = "upload"
  /\ Rejected("INSERT", "storage.objects", session, ObjectRow(EvidenceBucket, submit.key))
  /\ submit' = Failed(submit)
  /\ UNCHANGED <<now, session, dash, auth, nav>>

SubmitRecordThrows ==
  /\ submit.pc = "record"
  /\ Rejected("INSERT", "incident_files", session,
              [id |-> 0, incident_id |-> submit.incident])
  /\ submit' = Failed(submit)
  /\ UNCHANGED <<now, session, dash, auth, nav>>

NextSubmitThrows ==
  \/ NextSubmit
  \/ SubmitUploadThrows
  \/ SubmitRecordThrows

SpecSubmitThrows == InitSubmit /\ [][NextSubmitThrows]_vars

(***************************************************************************)
(* The page AdminDashboard.  dash.pc is the call the page waits for;       *)
(* "closed" is the page not mounted, "ready" the page at rest.  The list   *)
(* dash.incidents holds the rows as the last fetch returned them, each     *)
(* with its id.                                                            *)
(***************************************************************************)
\* the page is opened: the initial state, and useEffect calls checkAdminAccess
OpenDashboard ==
  /\ dash.pc = "closed"
  /\ dash' = [DashClosed EXCEPT !.pc = "getUser"]
  /\ UNCHANGED <<users, profiles, user_roles, incidents, incident_files, audit_logs,
                 objects, last, now, session, submit, auth, nav>>

\* checkAdminAccess: getUser() has answered
DashGetUser ==
  /\ dash.pc = "getUser"
  /\ dash' = IF GetUser = NULL
             THEN [dash EXCEPT !.pc = "closed", !.route = "/auth"]
             ELSE [dash EXCEPT !.pc = "role", !.user = GetUser]
  /\ UNCHANGED <<users, profiles, user_roles, incidents, incident_files, audit_logs,
                 objects, last, now, session, submit, auth, nav>>

\* the rows of the role query: those the caller may see, of the user, with a
\* role in ('admin', 'cert_admin')
RoleQuery(uid, user) ==
  {x \in BagToSet(user_roles) :
     /\ Permitted("user_roles", "SELECT", uid, x)
     /\ x.user_id = user
     /\ x.role \in {"admin", "cert_admin"}}

\* .single(): the row when the query has exactly one, otherwise no data; the
\* data is a sequence of one row or of none
single(B, rows) ==
  IF SumCopies(B, rows) = 1 THEN <<CHOOSE x \in rows : TRUE>> ELSE <<>>

\* checkAdminAccess: the role query has answered
DashRoleAnyone ==
  /\ dash.pc = "role"
  /\ LET roleData == single(user_roles, RoleQuery(session, dash.user))
     IN /\ last' = Req("SELECT", "user_roles", session, [id |-> dash.user],
                       IF roleData = <<>> THEN "none" ELSE "done")
        /\ dash' = [dash EXCEPT !.pc = "fetch", !.isAdmin = TRUE]
  /\ UNCHANGED <<users, profiles, user_roles, incidents, incident_files, audit_logs,
                 objects, now, session, submit, auth, nav>>

DashRole ==
  /\ dash.pc = "role"
  /\ LET roleData == single(user_roles, RoleQuery(session, dash.user))
     IN /\ last' = Req("SELECT", "user_roles", session, [id |-> dash.user],
                       IF roleData = <<>> THEN "none" ELSE "done")
        /\ dash' = IF roleData = <<>>
                   THEN [dash EXCEPT !.pc = "closed", !.toast = "Access Denied",
                                     !.route = "/dashboard"]
                   ELSE [dash EXCEPT !.pc = "fetch", !.isAdmin = TRUE]
  /\ UNCHANGED <<users, profiles, user_roles, incidents, incident_files, audit_logs,
                 objects, now, session, submit, auth, nav>>

\* .order('priority_score', desc).order('created_at', desc): x may stand
\* before y
OrderedAscendingTies(x, y) ==
  \/ x.priority_score > y.priority_score
  \/ x.priority_score = y.priority_score /\ x.created_at <= y.created_at

Ordered(x, y) ==
  \/ x.priority_score > y.priority_score
  \/ x.priority_score = y.priority_score /\ x.created_at >= y.created_at

\* select('*') with the two orders: the rows the caller may see, in any of
\* the sequences the order allows
IncidentRow(id) == [id |-> id] @@ incidents[id]

SelectAllIncidents(uid) ==
  LET seen == {id \in DOMAIN incidents :
                 Permitted("incidents", "SELECT", uid, incidents[id])}
      n == Cardinality(seen)
  IN {[k \in 1..n |-> IncidentRow(o[k])] :
        o \in {q \in [1..n -> seen] :
                 /\ \A a, b \in 1..n : a # b => q[a] # q[b]
                 /\ \A a, b \in 1..n :
                      a < b => Ordered(IncidentRow(q[a]), IncidentRow(q[b]))}}

\* fetchAllIncidents: the query has answered, with the rows or with an error
FetchInputs == {"rows", "error"}

DashFetch(answer) ==
  /\ dash.pc = "fetch"
  /\ IF answer = "error"
     THEN /\ last' = Req("SELECT", "incidents", session, [id |-> NULL], "error")
          /\ dash' = [dash EXCEPT !.pc = "ready", !.loading = FALSE]
     ELSE /\ last' = Req("SELECT", "incidents", session, [id |-> NULL], "done")
          /\ \E data \in SelectAllIncidents(session) :
               dash' = [dash EXCEPT !.pc = "ready", !.loading = FALSE,
                                    !.incidents = data]
  /\ UNCHANGED <<users, profiles, user_roles, incidents, incident_files, audit_logs,
                 objects, now, session, submit, auth, nav>>

\* the render guard: the controls of the page are there
Rendered == dash.pc # "closed" /\ ~(~dash.isAdmin \/ dash.loading)

ListedIds == {dash.incidents[k].id : k \in 1..Len(dash.incidents)}

\* updateIncidentStatus and updateThreatLevel on a listed incident, up to the
\* call of fetchAllIncidents
UpdateFromDashboard(id, patch, title) ==
  /\ dash.pc = "ready" /\ Rendered
  /\ id \in ListedIds
  /\ UpdateIncident(session, id, patch)
  /\ dash' = IF last'.res = "error"
             THEN [dash EXCEPT !.toast = "Update failed"]
             ELSE [dash EXCEPT !.toast = title, !.pc = "fetch"]
  /\ UNCHANGED <<now, session, submit, auth, nav>>

updateIncidentStatus(incidentId, newStatus) ==
  UpdateFromDashboard(incidentId, [status |-> newStatus], "Status updated")

updateThreatLevel(incidentId, level) ==
  UpdateFromDashboard(incidentId, [threat_level |-> level], "Threat level updated")

\* the counts and the views of the page
IsCritical(i) == i.threat_level = "critical"
IsHigh(i) == i.threat_level = "high"
IsPending(i) == i.status = "submitted" \/ i.status = "under_review"

stats ==
  [total |-> Len(dash.incidents),
   critical |-> Len(SelectSeq(dash.incidents, IsCritical)),
   high |-> Len(SelectSeq(dash.incidents, IsHigh)),
   pending |-> Len(SelectSeq(dash.incidents, IsPending))]

filterIncidentsSubmittedOnly(filter) ==
  CASE filter = "critical" -> SelectSeq(dash.incidents, IsCritical)
    [] filter = "high" -> SelectSeq(dash.incidents, IsHigh)
    [] filter = "pending" -> SelectSeq(dash.incidents, LAMBDA i : i.status = "submitted")
    [] OTHER -> dash.incidents

filterIncidents(filter) ==
  CASE filter = "critical" -> SelectSeq(dash.incidents, IsCritical)
    [] filter = "high" -> SelectSeq(dash.incidents, IsHigh)
    [] filter = "pending" -> SelectSeq(dash.incidents, IsPending)
    [] OTHER -> dash.incidents

\* the tabs of the page
FilterInputs == {"all", "critical", "high", "pending"}

\* the priority the filer gives when filing
TriageInsertInputs == {[user_id |-> "u1", priority_score |-> p] : p \in {0, 5}}

StatusInputs == {"under_review", "resolved"}
ThreatInputs == {"critical", "high"}

\* the triage list: incidents are filed at different times and with different
\* priorities while the dashboard is closed; then it is opened
NextTriage ==
  \/ dash.pc = "closed" /\ Tick
  \/ /\ dash.pc = "closed"
     /\ \E cols \in TriageInsertInputs : Request(InsertIncident("u1", cols))
  \/ OpenDashboard
  \/ DashGetUser
  \/ DashRole
  \/ \E answer \in FetchInputs : DashFetch(answer)

SpecTriage == InitSubmit /\ [][NextTriage]_vars

\* the dashboard at work: incidents are filed while it is closed; then it is
\* opened and the incidents are triaged, every fetch answering with the rows
NextDash ==
  \/ dash.pc = "closed" /\ Request(InsertIncident("u1", [user_id |-> "u1"]))
  \/ OpenDashboard
  \/ DashGetUser
  \/ DashRole
  \/ DashFetch("rows")
  \/ \E id \in IncidentIds, newStatus \in StatusInputs :
       updateIncidentStatus(id, newStatus)
  \/ \E id \in IncidentIds, level \in ThreatInputs : updateThreatLevel(id, level)

SpecDash == InitSubmit /\ [][NextDash]_vars

(***************************************************************************)
(* The page Auth.  auth.pc is the call handleAuth waits for.  The e-mail   *)
(* address of the form stands for the identity it belongs to; a sign-in    *)
(* succeeds for an identity that exists, with its password.  The listener  *)
(* of a mounted Navbar hears the new session.                              *)
(***************************************************************************)
\* the listener of onAuthStateChange, called with the session of user s (or
\* with none): the Navbar after it, when one is mounted
CanListen(s) == nav.mounted /\ s # NULL => Len(nav.lookups) < MaxLookups

\* a role lookup for `user`, sent with the token of `uid`
Lookup(user, uid) == [user |-> user, uid |-> uid]

Listener(s) ==
  IF ~nav.mounted THEN nav
  ELSE [nav EXCEPT !.user = s,
                   !.lookups = IF s = NULL THEN @ ELSE Append(@, Lookup(s, s))]

\* the fields of the registration form: the name is required, rank and unit
\* may stay empty
SignUpInputs ==
  {[full_name |-> "Asha", rank |-> "Major", unit |-> "Signals"],
   [full_name |-> "Asha", rank |-> "", unit |-> ""]}

PasswordInputs == {"secret", "wrong"}

\* the page is opened
OpenAuth ==
  /\ auth.pc = "idle" /\ auth.route # "/auth"
  /\ auth' = AuthIdle
  /\ UNCHANGED <<users, profiles, user_roles, incidents, incident_files, audit_logs,
                 objects, last, now, session, submit, dash, nav>>

\* the link under the form: setIsLogin(!isLogin), setError("")
ToggleLogin ==
  /\ auth.pc = "idle" /\ auth.route = "/auth"
  /\ auth' = [auth EXCEPT !.isLogin = ~@, !.error = ""]
  /\ UNCHANGED <<users, profiles, user_roles, incidents, incident_files, audit_logs,
                 objects, last, now, session, submit, dash, nav>>

\* the form is submitted: handleAuth up to its await; the button is disabled
\* while loading
handleAuth(email, password, data) ==
  /\ auth.pc = "idle" /\ auth.route = "/auth" /\ ~auth.loading
  /\ auth' = [auth EXCEPT !.pc = IF auth.isLogin THEN "signIn" ELSE "signUp",
                          !.loading = TRUE, !.error = "", !.email = email,
                          !.password = password,
                          !.data = IF auth.isLogin THEN @ ELSE data]
  /\ UNCHANGED <<users, profiles, user_roles, incidents, incident_files, audit_logs,
                 objects, last, now, session, submit, dash, nav>>

\* the catch and finally blocks of handleAuth
AuthFailedStillLoading(a, message) ==
  [a EXCEPT !.pc = "idle", !.error = message, !.toast = "Authentication failed"]

AuthFailed(a, message) ==
  [a EXCEPT !.pc = "idle", !.error = message, !.toast = "Authentication failed",
            !.loading = FALSE]

\* signInWithPassword has answered, or thrown
AuthSignIn ==
  /\ auth.pc = "signIn"
  /\ IF auth.email \in users /\ auth.password = "secret"
     THEN /\ CanListen(auth.email)
          /\ session' = auth.email
          /\ nav' = Listener(auth.email)
          /\ auth' = [auth EXCEPT !.pc = "idle", !.toast = "Welcome back!",
                                  !.route = "/dashboard", !.loading = FALSE]
     ELSE /\ auth' = AuthFailed(auth, "Invalid login credentials")
          /\ UNCHANGED <<session, nav>>
  /\ UNCHANGED <<users, profiles, user_roles, incidents, incident_files, audit_logs,
                 objects, last, now, submit, dash>>

\* signUp has answered, or thrown: the identity is inserted with the form's
\* fields as its metadata, unless the address is registered already
AuthSignUp(fault) ==
  /\ auth.pc = "signUp"
  /\ IF auth.email \in users
     THEN Rejected("INSERT", "auth.users", NULL,
                   [id |-> auth.email, raw_user_meta_data |-> auth.data])
     ELSE CreateIdentity(auth.email, auth.data, fault)
  /\ auth' = IF last'.res = "done"
             THEN [auth EXCEPT !.pc = "idle", !.toast = "Account created!",
                               !.isLogin = TRUE, !.loading = FALSE]
             ELSE AuthFailed(auth, "signUp failed")
  /\ UNCHANGED <<now, session, submit, dash, nav>>

\* sign-up and sign-in through the page, and profile updates
NextSignUp ==
  \/ OpenAuth
  \/ ToggleLogin
  \/ \E email \in Users, password \in PasswordInputs, data \in SignUpInputs :
       handleAuth(email, password, data)
  \/ AuthSignIn
  \/ \E fault \in FaultInputs : AuthSignUp(fault)
  \/ /\ auth.pc = "idle"
     /\ \E id \in Users, patch \in ProfileFormInputs :
          Request(UpdateProfile(session, id, patch))

SpecSignUp == Init /\ [][NextSignUp]_vars

(***************************************************************************)
(* Termination of the two form handlers.  One tab shows one page at a      *)
(* time: Auth first, ReportIncident after a link is followed, and back.    *)
(* Every awaited call answers or throws; that is the fairness assumed.     *)
(***************************************************************************)
\* <Link to="/report">: Auth is unmounted, ReportIncident mounted
GoToReport ==
  /\ auth.pc = "idle" /\ submit.pc = "idle" /\ submit.route # "/report"
  /\ submit' = SubmitIdle
  /\ auth' = [AuthIdle EXCEPT !.route = "/report"]
  /\ UNCHANGED <<users, profiles, user_roles, incidents, incident_files, audit_logs,
                 objects, last, now, session, dash, nav>>

\* <Link to="/auth">, navigate('/auth'): the other way
GoToAuth ==
  /\ auth.pc = "idle" /\ submit.pc = "idle" /\ auth.route # "/auth"
  /\ auth' = AuthIdle
  /\ submit' = [SubmitIdle EXCEPT !.route = "/auth"]
  /\ UNCHANGED <<users, profiles, user_roles, incidents, incident_files, audit_logs,
                 objects, last, now, session, dash, nav>>

\* the awaited calls of handleSubmit and of handleAuth answer or throw
SubmitAnswers ==
  \/ SubmitGetUser
  \/ \E type \in TypeInputs : SubmitInsert(type)
  \/ SubmitUpload
  \/ SubmitUploadThrows
  \/ SubmitRecord
  \/ SubmitRecordThrows

AuthAnswers ==
  \/ AuthSignIn
  \/ \E fault \in FaultInputs : AuthSignUp(fault)

InitLive ==
  /\ InitTables /\ ~IsPrivileged("u1") /\ session = NULL
  /\ submit = [SubmitIdle EXCEPT !.route = "/auth"]
  /\ dash = DashClosed /\ auth = AuthIdle /\ nav = NavUnmounted

NextLive ==
  \/ GoToReport
  \/ GoToAuth
  \/ ToggleLogin
  \/ \E email \in Users, password \in PasswordInputs, data \in SignUpInputs :
       handleAuth(email, password, data)
  \/ AuthAnswers
  \/ \E file \in FileInputs : AttachFile(file)
  \/ HandleSubmit
  \/ SubmitAnswers

SpecLive ==
  InitLive /\ [][NextLive]_vars /\ WF_vars(SubmitAnswers) /\ WF_vars(AuthAnswers)

(***************************************************************************)
(* The component Navbar.  Its effect sends getUser() and subscribes to the *)
(* changes of the authentication state; the answer of getUser() and every  *)
(* event set `user` and, for a user, send a role lookup whose answer sets  *)
(* `userRole`.  The answers arrive in any order.  A lookup is sent with    *)
(* the token that the client holds when it is sent and is evaluated when   *)
(* it is answered.                                                         *)
(***************************************************************************)
\* useEffect, on mount
MountNavbar ==
  /\ ~nav.mounted
  /\ nav' = [NavUnmounted EXCEPT !.mounted = TRUE, !.getUser = "sent"]
  /\ UNCHANGED <<users, profiles, user_roles, incidents, incident_files, audit_logs,
                 objects, last, now, session, submit, dash, auth>>

\* the page that shows the Navbar is left: the subscription ends and the
\* pending callbacks no longer have a component to set
UnmountNavbar ==
  /\ nav.mounted
  /\ nav' = NavUnmounted
  /\ UNCHANGED <<users, profiles, user_roles, incidents, incident_files, audit_logs,
                 objects, last, now, session, submit, dash, auth>>

\* the identity provider answers getUser()
NavGetUserAnswer ==
  /\ nav.mounted /\ nav.getUser = "sent"
  /\ nav' = [nav EXCEPT !.getUser = "answered", !.answer = GetUser]
  /\ UNCHANGED <<users, profiles, user_roles, incidents, incident_files, audit_logs,
                 objects, last, now, session, submit, dash, auth>>

\* getUser().then(...)
NavGetUserThen ==
  /\ nav.mounted /\ nav.getUser = "answered"
  /\ nav.answer # NULL => Len(nav.lookups) < MaxLookups
  /\ nav' = [nav EXCEPT !.getUser = "done", !.user = nav.answer,
                        !.lookups = IF nav.answer = NULL THEN @
                                    ELSE Append(@, Lookup(nav.answer, session))]
  /\ UNCHANGED <<users, profiles, user_roles, incidents, incident_files, audit_logs,
                 objects, last, now, session, submit, dash, auth>>

\* the authentication state changes to the session of s, or an event
\* repeats the session that is there (a token refresh, the initial session)
AuthStateChange(s) ==
  /\ nav.mounted /\ CanListen(s)
  /\ s # NULL => s \in users
  /\ session' = s
  /\ nav' = Listener(s)
  /\ UNCHANGED <<users, profiles, user_roles, incidents, incident_files, audit_logs,
                 objects, last, now, submit, dash, auth>>

\* the rows of the lookup: those of the user that the caller may see
NavRoleQuery(uid, user) ==
  {x \in BagToSet(user_roles) :
     Permitted("user_roles", "SELECT", uid, x) /\ x.user_id = user}

\* .single().then(({ data }) => { if (data) setUserRole(data.role) }) of the
\* k-th pending lookup
NavRoleThen(k) ==
  /\ nav.mounted /\ k \in 1..Len(nav.lookups)
  /\ LET l == nav.lookups[k]
         data == single(user_roles, NavRoleQuery(l.uid, l.user))
         rest == SubSeq(nav.lookups, 1, k - 1) \o SubSeq(nav.lookups, k + 1, Len(nav.lookups))
     IN /\ last' = Req("SELECT", "user_roles", l.uid, [id |-> l.user],
                       IF data = <<>> THEN "none" ELSE "done")
        /\ nav' = [nav EXCEPT !.lookups = rest,
                              !.userRole = IF data = <<>> THEN @ ELSE data[1].role]
  /\ UNCHANGED <<users, profiles, user_roles, incidents, incident_files, audit_logs,
                 objects, now, session, submit, dash, auth>>

\* handleSignOut, of the button shown to a user: signOut(), whose event
\* reaches the listener, then navigate('/auth'), a page without Navbar
handleSignOut ==
  /\ nav.mounted /\ nav.user # NULL
  /\ session' = NULL
  /\ nav' = NavUnmounted
  /\ UNCHANGED <<users, profiles, user_roles, incidents, incident_files, audit_logs,
                 objects, last, now, submit, dash, auth>>

\* the link 'CERT Admin' is rendered
CertAdminLink ==
  nav.mounted /\ nav.user # NULL /\ nav.userRole \in {"admin", "cert_admin"}

\* no callback of the Navbar is pending
NavSettled == nav.mounted /\ nav.getUser = "done" /\ nav.lookups = <<>>

\* role assignments change while no Navbar is mounted
RolesManaged ==
  /\ ~nav.mounted
  /\ \/ \E uid \in Users, row \in RoleRowInputs, role \in app_role :
          Request(UpdateUserRole(uid, row, role))
     \/ \E uid \in Users, row \in RoleRowInputs : Request(DeleteUserRole(uid, row))

\* one Navbar and one session: the events repeat the session
NextNavbar ==
  \/ RolesManaged
  \/ MountNavbar
  \/ UnmountNavbar
  \/ NavGetUserAnswer
  \/ NavGetUserThen
  \/ AuthStateChange(session)
  \/ \E k \in 1..MaxLookups : NavRoleThen(k)

SpecNavbar == InitSubmit /\ [][NextNavbar]_vars

\* the session changes while the Navbar is mounted
NextNavRace ==
  \/ RolesManaged
  \/ MountNavbar
  \/ UnmountNavbar
  \/ NavGetUserAnswer
  \/ NavGetUserThen
  \/ \E s \in Callers : AuthStateChange(s)
  \/ \E k \in 1..MaxLookups : NavRoleThen(k)
  \/ handleSignOut

SpecNavRace == InitSubmit /\ [][NextNavRace]_vars

(***************************************************************************)
(* Identities and role assignments.                                        *)
(***************************************************************************)
NextRoles ==
  \/ \E I \in Users, meta \in MetaInputs, fault \in FaultInputs :
       Request(CreateIdentity(I, meta, fault))
  \/ \E I \in Users : Request(DeleteIdentity(I))
  \/ \E uid \in Callers, row \in RoleRowInputs : Request(InsertUserRole(uid, row))
  \/ \E uid \in Callers, row \in RoleRowInputs : Request(SelectUserRole(uid, row))
  \/ \E uid \in Callers, row \in RoleRowInputs, role \in app_role :
       Request(UpdateUserRole(uid, row, role))
  \/ \E uid \in Callers, row \in RoleRowInputs : Request(DeleteUserRole(uid, row))

SpecRoles == Init /\ [][NextRoles]_vars

(***************************************************************************)
(* Incidents.                                                              *)
(***************************************************************************)
Next ==
  \/ \E uid \in Callers, cols \in IncidentInsertInputs : Request(InsertIncident(uid, cols))
  \/ \E uid \in Callers, id \in IncidentIds : Request(SelectIncident(uid, id))
  \/ \E uid \in Callers, id \in IncidentIds, patch \in IncidentPatchInputs :
       Request(UpdateIncident(uid, id, patch))
  \/ \E uid \in Callers, id \in IncidentIds : Request(DeleteIncident(uid, id))

Spec == InitStaffed /\ [][Next]_vars

(***************************************************************************)
(* Evidence files of incidents.                                            *)
(***************************************************************************)
NextFiles ==
  \/ \E uid \in Users : Request(InsertIncident(uid, [user_id |-> uid]))
  \/ \E uid \in Callers, row \in FileRowInputs : Request(InsertIncidentFile(uid, row))
  \/ \E uid \in Callers, id \in FileIds : Request(SelectIncidentFile(uid, id))
  \/ \E uid \in Callers, id \in FileIds, patch \in FilePatchInputs :
       Request(UpdateIncidentFile(uid, id, patch))
  \/ \E uid \in Callers, id \in FileIds : Request(DeleteIncidentFile(uid, id))

SpecFiles == InitStaffed /\ [][NextFiles]_vars

(***************************************************************************)
(* Deletion: the DELETE requests and the deletion of an identity, with the  *)
(* requests that fill the tables: owners file incidents and attach         *)
(* evidence, and one anonymous audit row is written.                       *)
(***************************************************************************)
NextDelete ==
  \/ \E uid \in Users : Request(InsertIncident(uid, [user_id |-> uid]))
  \/ \E id \in DOMAIN incidents :
       Request(InsertIncidentFile(incidents[id].user_id, FileRow(id, "evidence")))
  \/ audit_logs = EmptyBag /\ Request(InsertAuditLog(NULL, AuditRow(NULL, "login")))
  \/ \E uid \in Callers, id \in IncidentIds : Request(DeleteIncident(uid, id))
  \/ \E uid \in Callers, id \in FileIds : Request(DeleteIncidentFile(uid, id))
  \/ \E uid \in Callers, id \in Users : Request(DeleteProfile(uid, id))
  \/ \E uid \in Callers : Request(DeleteAuditLog(uid, AuditRow(NULL, "login")))
  \/ \E I \in Users : Request(DeleteIdentity(I))

SpecDelete == InitStaffed /\ [][NextDelete]_vars

(***************************************************************************)
(* The audit log.                                                          *)
(***************************************************************************)
NextAudit ==
  \/ \E uid \in Callers, row \in AuditRowInputs : Request(InsertAuditLog(uid, row))
  \/ \E uid \in Callers, row \in AuditRowInputs : Request(SelectAuditLog(uid, row))
  \/ \E uid \in Callers, row \in AuditRowInputs, patch \in AuditPatchInputs :
       Request(UpdateAuditLog(uid, row, patch))
  \/ \E uid \in Callers, row \in AuditRowInputs : Request(DeleteAuditLog(uid, row))

SpecAudit == InitStaffed /\ [][NextAudit]_vars

(***************************************************************************)
(* The evidence store.                                                     *)
(***************************************************************************)
NextStorage ==
  \/ \E uid \in Callers, row \in ObjectInputs : Request(UploadObject(uid, row))
  \/ \E uid \in Callers, row \in ObjectInputs : Request(DownloadObject(uid, row))
  \/ \E uid \in Callers, row \in ObjectInputs : Request(OverwriteObject(uid, row))
  \/ \E uid \in Callers, row \in ObjectInputs : Request(RemoveObject(uid, row))

SpecStorage == InitStaffed /\ [][NextStorage]_vars

(***************************************************************************)
(* Profiles.                                                               *)
(***************************************************************************)
NextProfiles ==
  \/ \E uid \in Callers, row \in ProfileRowInputs : Request(InsertProfile(uid, row))
  \/ \E uid \in Callers, id \in Users : Request(SelectProfile(uid, id))
  \/ \E uid \in Callers, id \in Users, patch \in ProfilePatchInputs :
       Request(UpdateProfile(uid, id, patch))

SpecProfiles == InitStaffed /\ [][NextProfiles]_vars

(***************************************************************************)
(* References: rows that name identities in user_id, assigned_to and       *)
(* assigned_by are written, evidence is attached, and identities are       *)
(* deleted.  An incident is assigned to nobody or to the other identity    *)
(* and gets one evidence file; a cert_admin records itself in assigned_by; *)
(* the audit log holds one row at a time.                                  *)
(***************************************************************************)
NextRefs ==
  \/ \E uid \in Users :
       \E to \in (Users \ {uid}) \cup {NULL} :
         Request(InsertIncident(uid, [user_id |-> uid, assigned_to |-> to]))
  \/ \E id \in DOMAIN incidents :
       /\ \A f \in DOMAIN incident_files : incident_files[f].incident_id # id
       /\ Request(InsertIncidentFile(incidents[id].user_id, FileRow(id, "evidence")))
  \/ \E uid \in Users, u \in Users :
       Request(InsertUserRole(uid, RoleRow(u, "admin", uid)))
  \/ audit_logs = EmptyBag /\ \E u \in Users : Request(InsertAuditLog(u, AuditRow(u, "login")))
  \/ \E I \in Users : Request(DeleteIdentity(I))

SpecRefs == InitStaffed /\ [][NextRefs]_vars

(***************************************************************************)
(* Ownership: incidents are filed and updated, profiles are updated, with  *)
(* patches that name another owner.                                        *)
(***************************************************************************)
NextOwner ==
  \/ \E uid \in Users : Request(InsertIncident(uid, [user_id |-> uid]))
  \/ \E uid \in Callers, id \in IncidentIds, patch \in OwnerPatchInputs :
       Request(UpdateIncident(uid, id, patch))
  \/ \E uid \in Callers, id \in Users, patch \in ProfileIdPatchInputs :
       Request(UpdateProfile(uid, id, patch))

SpecOwner == InitStaffed /\ [][NextOwner]_vars

(***************************************************************************)
(* Time stamps: the clock advances while one incident is filed and         *)
(* updated by its filer or another identity, and identities update their   *)
(* own profiles.                                                           *)
(***************************************************************************)
NextTime ==
  \/ Tick
  \/ incidents = EmptyTable /\ Request(InsertIncident("u1", [user_id |-> "u1"]))
  \/ \E uid \in Users, id \in IncidentIds,
         patch \in StampInputs \cup {[status |-> "under_review"]} :
       Request(UpdateIncident(uid, id, patch))
  \/ \E uid \in Users, patch \in StampInputs \cup {[full_name |-> "Asha"]} :
       Request(UpdateProfile(uid, uid, patch))

SpecTime == InitStaffed /\ [][NextTime]_vars

(***************************************************************************)
(* Claims about identities and role assignments (under SpecRoles).         *)
(***************************************************************************)
\* the roles a caller holds, read off the table
HoldsRole(uid, role) ==
  \E x \in BagToSet(user_roles) : x.user_id = uid /\ x.role = role

HoldsPrivilege(uid) == HoldsRole(uid, "admin") \/ HoldsRole(uid, "cert_admin")

IsRoleWrite(r) ==
  r.tbl = "user_roles" /\ r.cmd \in {"INSERT", "UPDATE", "DELETE"}

IsCreateIdentity(r) == r.tbl = "auth.users" /\ r.cmd = "INSERT"

\* C2: a request that inserts, updates or deletes a role assignment succeeds
\* only for a caller who holds cert_admin when the request is made; and a
\* client request of a caller who does not hold cert_admin leaves user_roles
\* as it was, but for the one row (I, 'user') that the bootstrap of a new
\* identity I adds.
C2_OnlyCertAdminManagesRoles ==
  [][ /\ (IsRoleWrite(last') /\ last'.res = "done")
           => HoldsRole(last'.uid, "cert_admin")
      /\ (last'.uid # SERVICE /\ ~HoldsRole(last'.uid, "cert_admin"))
           => \/ user_roles' = user_roles
              \/ /\ IsCreateIdentity(last')
                 /\ last'.key.id \in users' \ users
                 /\ user_roles' = BagAdd(user_roles, RoleRow(last'.key.id, "user", NULL))
    ]_vars

\* C2 witness: a caller who holds admin but not cert_admin asked to insert an
\* acceptable role assignment for an existing identity and was refused.
C2_Witness ==
  /\ last.tbl = "user_roles" /\ last.cmd = "INSERT" /\ last.res = "error"
  /\ HoldsRole(last.uid, "admin") /\ ~HoldsRole(last.uid, "cert_admin")
  /\ UserRoleAccepted(user_roles, last.key)

\* C4: the step that creates identity I leaves exactly one profile row with
\* id = I and exactly one role assignment (I, 'user').
C4_BootstrapExactlyOnce ==
  [][ \A I \in Users :
        (I \notin users /\ I \in users')
          => /\ Cardinality({p \in profiles' : p.id = I}) = 1
             /\ CountRoles(user_roles', I, "user") = 1
    ]_vars

\* C4 witness: an identity has just been created.
C4_Witness ==
  /\ IsCreateIdentity(last) /\ last.res = "done"
  /\ last.key.id \in users

\* C5: a creation of identity I in which an insert of the bootstrap fails
\* leaves no identity I, no profile of I and no role assignment of I; and
\* after any creation step I has a profile exactly if it has a role
\* assignment.
C5_BootstrapAllOrNothing ==
  [][ IsCreateIdentity(last')
        => LET I == last'.key.id
               hasProfile == \E p \in profiles' : p.id = I
               hasRole == \E x \in BagToSet(user_roles') : x.user_id = I
           IN /\ last'.res = "error" => (I \notin users' /\ ~hasProfile /\ ~hasRole)
              /\ hasProfile <=> hasRole
              /\ hasProfile <=> I \in users'
    ]_vars

\* C5 witness: a creation has failed.
C5_Witness ==
  /\ IsCreateIdentity(last) /\ last.res = "error"
  /\ last.key.id \notin users

(***************************************************************************)
(* Claims about incidents (under Spec).                                    *)
(***************************************************************************)
\* C1: a SELECT or UPDATE request on incident X reaches X exactly when the
\* caller owns X or holds admin or cert_admin; a request that does not reach
\* X changes no incident, a SELECT that reaches it returns it, and an UPDATE
\* that reaches it with an acceptable patch that leaves the owner alone
\* changes it.
C1_IncidentAccess ==
  [][ (last'.tbl = "incidents" /\ last'.cmd \in {"SELECT", "UPDATE"})
        => LET X == incidents[last'.key.id]
               c == last'.uid
               entitled == c = X.user_id \/ HoldsPrivilege(c)
           IN /\ entitled <=> last'.res # "none"
              /\ ~entitled => incidents' = incidents
              /\ entitled => last'.res = "done"
    ]_vars

\* C1 witness: an administrator who is not the owner has updated an incident.
C1_Witness ==
  /\ last.tbl = "incidents" /\ last.cmd = "UPDATE" /\ last.res = "done"
  /\ HoldsPrivilege(last.uid)
  /\ incidents[last.key.id].user_id # last.uid
  /\ ~HoldsPrivilege(incidents[last.key.id].user_id)

\* C3 (as claimed): threat_level and status of an incident change only in a
\* request of a caller who holds admin or cert_admin.
C3_ThreatOnlyByAdmins ==
  [][ \A i \in DOMAIN incidents \cap DOMAIN incidents' :
        (\/ incidents'[i].threat_level # incidents[i].threat_level
         \/ incidents'[i].status # incidents[i].status)
          => HoldsPrivilege(last'.uid)
    ]_vars

\* C6: an INSERT on incidents succeeds only for an authenticated caller and
\* a row whose user_id is the caller, and an incident appears in no other
\* way, so that every new incident is owned by the caller who filed it.
C6_InsertOnlyOwn ==
  [][ /\ (last'.tbl = "incidents" /\ last'.cmd = "INSERT")
           => (last'.res = "done" <=> (last'.uid \in Users /\ last'.key.user_id = last'.uid))
      /\ \A i \in DOMAIN incidents' \ DOMAIN incidents :
           /\ last'.tbl = "incidents" /\ last'.cmd = "INSERT" /\ last'.res = "done"
           /\ incidents'[i].user_id = last'.uid
    ]_vars

\* C6 witness: a caller who holds admin or cert_admin asked to file an
\* incident owned by the other identity and was refused.
C6_Witness ==
  /\ last.tbl = "incidents" /\ last.cmd = "INSERT" /\ last.res = "error"
  /\ HoldsPrivilege(last.uid)
  /\ last.key.user_id \in users \ {last.uid}

(***************************************************************************)
(* Claims about deletion (under SpecDelete).                               *)
(***************************************************************************)
\* C7: a DELETE request on incidents, incident_files, profiles or audit_logs
\* deletes nothing, whoever asks; an incident disappears only in the step
\* that deletes its filer's identity, and an evidence file only in a step in
\* which its incident disappears.
C7_NoClientDelete ==
  [][ /\ (last'.cmd = "DELETE"
            /\ last'.tbl \in {"incidents", "incident_files", "profiles", "audit_logs"})
           => /\ last'.res = "none"
              /\ UNCHANGED <<incidents, incident_files, profiles, audit_logs>>
      /\ \A i \in DOMAIN incidents \ DOMAIN incidents' :
           incidents[i].user_id \in users \ users'
      /\ \A f \in DOMAIN incident_files \ DOMAIN incident_files' :
           incident_files[f].incident_id \in DOMAIN incidents \ DOMAIN incidents'
    ]_vars

\* C7 witness: a caller who holds admin or cert_admin asked to delete an
\* incident that has an evidence file; both are still there.
C7_Witness ==
  /\ last.tbl = "incidents" /\ last.cmd = "DELETE" /\ last.res = "none"
  /\ HoldsPrivilege(last.uid)
  /\ last.key.id \in DOMAIN incidents
  /\ \E f \in DOMAIN incident_files : incident_files[f].incident_id = last.key.id

(***************************************************************************)
(* Claims about evidence files (under SpecFiles).                          *)
(***************************************************************************)
\* C8: a SELECT on an evidence file returns it exactly when the caller owns
\* the parent incident or holds admin or cert_admin; an INSERT succeeds
\* exactly when the caller owns the parent incident; an UPDATE changes
\* nothing.
C8_EvidenceFileAccess ==
  [][ last'.tbl = "incident_files"
        => LET c == last'.uid
           IN /\ last'.cmd = "SELECT"
                   => LET parent == incidents[incident_files[last'.key.id].incident_id]
                      IN last'.res = "done" <=> (c = parent.user_id \/ HoldsPrivilege(c))
              /\ last'.cmd = "INSERT"
                   => (last'.res = "done"
                         <=> /\ last'.key.incident_id \in DOMAIN incidents
                             /\ incidents[last'.key.incident_id].user_id = c)
              /\ last'.cmd = "UPDATE"
                   => last'.res = "none" /\ incident_files' = incident_files
    ]_vars

\* C8 witness: a caller who holds admin or cert_admin and does not own the
\* incident asked to insert an evidence file for it and was refused.
C8_Witness ==
  /\ last.tbl = "incident_files" /\ last.cmd = "INSERT" /\ last.res = "error"
  /\ HoldsPrivilege(last.uid)
  /\ last.key.incident_id \in DOMAIN incidents
  /\ incidents[last.key.incident_id].user_id # last.uid

(***************************************************************************)
(* Claims about the audit log (under SpecAudit).                           *)
(***************************************************************************)
\* C9: an INSERT on audit_logs succeeds for every caller; a SELECT returns
\* the row exactly when the caller holds cert_admin; an UPDATE or DELETE
\* changes nothing; no step removes an audit row.
C9_AuditAppendOnly ==
  [][ /\ last'.tbl = "audit_logs"
           => /\ last'.cmd = "INSERT" => last'.res = "done"
              /\ last'.cmd = "SELECT"
                   => (last'.res = "done"
                         <=> HoldsRole(last'.uid, "cert_admin"))
              /\ last'.cmd \in {"UPDATE", "DELETE"}
                   => last'.res = "none" /\ audit_logs' = audit_logs
      /\ \A x \in BagToSet(audit_logs) : CopiesIn(x, audit_logs') >= CopiesIn(x, audit_logs)
    ]_vars

\* C9 witness: a caller who holds admin but not cert_admin asked for an audit
\* row and got none.
C9_Witness ==
  /\ last.tbl = "audit_logs" /\ last.cmd = "SELECT" /\ last.res = "none"
  /\ HoldsRole(last.uid, "admin") /\ ~HoldsRole(last.uid, "cert_admin")
  /\ BagIn(last.key, audit_logs)

(***************************************************************************)
(* Claims about the evidence store (under SpecStorage).                    *)
(***************************************************************************)
\* the first segment of a key that has a folder
OwnerSegment(name) == IF Len(name) > 1 THEN name[1] ELSE NULL

\* C10: in the bucket incident-evidence an upload succeeds exactly when the
\* first segment of the key is the caller's identity (and the key is free),
\* a download exactly when it is the caller's identity or the caller holds
\* admin or cert_admin, and no request changes or removes an object.
C10_EvidenceStoreAccess ==
  [][ (last'.tbl = "storage.objects" /\ last'.key.bucket_id = EvidenceBucket)
        => LET c == last'.uid
               own == c \in Users /\ OwnerSegment(last'.key.name) = c
           IN /\ last'.cmd = "INSERT"
                   => (last'.res = "done" <=> (own /\ last'.key \notin objects))
              /\ last'.cmd = "SELECT"
                   => (last'.res = "done" <=> (own \/ HoldsPrivilege(c)))
              /\ last'.cmd \in {"UPDATE", "DELETE"}
                   => last'.res = "none" /\ objects' = objects
    ]_vars

\* C10 witness: a caller who holds admin or cert_admin asked to upload under
\* the other identity's prefix, at a free key, and was refused.
C10_Witness ==
  /\ last.tbl = "storage.objects" /\ last.cmd = "INSERT" /\ last.res = "error"
  /\ last.key.bucket_id = EvidenceBucket
  /\ HoldsPrivilege(last.uid)
  /\ OwnerSegment(last.key.name) \in Users \ {last.uid}
  /\ last.key \notin objects

(***************************************************************************)
(* Claims about profiles (under SpecProfiles).                             *)
(***************************************************************************)
\* C11: a SELECT on a profile returns it exactly when the caller is the
\* profile's identity or holds admin or cert_admin; an INSERT or UPDATE
\* succeeds only on the caller's own profile (row id = caller); no request
\* changes, adds or removes the profile of an identity other than the caller,
\* so an administrator can read another profile but not change it.
C11_ProfileAccess ==
  [][ last'.tbl = "profiles"
        => LET c == last'.uid
               id == last'.key.id
           IN /\ last'.cmd = "SELECT"
                   => (last'.res = "done" <=> (c = id \/ HoldsPrivilege(c)))
              /\ (last'.cmd \in {"INSERT", "UPDATE"} /\ last'.res = "done")
                   => /\ c = id
                      /\ \E p \in profiles' : p.id = c
              /\ \A p \in profiles : p.id # c => p \in profiles'
              /\ \A p \in profiles' : p.id # c => p \in profiles
    ]_vars

\* C11 witness: a caller who holds admin or cert_admin asked to update the
\* profile of another identity, and no row was updated.
C11_Witness ==
  /\ last.tbl = "profiles" /\ last.cmd = "UPDATE" /\ last.res = "none"
  /\ HoldsPrivilege(last.uid)
  /\ last.key.id # last.uid
  /\ \E p \in profiles : p.id = last.key.id /\ p.full_name = "User"

StoredFor(sb, objs) ==
  {o \in objs : o.bucket_id = EvidenceBucket /\ o.name[1] = sb.user
                  /\ o.name[2] = sb.incident}

RowsFor(sb, tbl) == {f \in DOMAIN tbl : tbl[f].incident_id = sb.incident}

\* C13: when getUser() answers that nobody is signed in, handleSubmit shows
\* "Authentication required", navigates to /auth and ends: no incident, no
\* blob and no evidence-file row is written.
C13_NoUserNoWrites ==
  [][ (submit.pc = "getUser" /\ submit'.pc # "getUser" /\ session \notin users)
        => /\ submit'.toast = "Authentication required"
           /\ submit'.route = "/auth"
           /\ submit'.pc = "idle"
           /\ UNCHANGED <<incidents, incident_files, objects, last>>
    ]_vars

\* C13 witness: an anonymous visitor who had attached a file submitted the
\* form and was sent to /auth; the tables are empty.
C13_Witness ==
  /\ session = NULL
  /\ submit.pc = "idle" /\ submit.route = "/auth"
  /\ submit.toast = "Authentication required"
  /\ Len(submit.files) > 0
  /\ incidents = EmptyTable /\ objects = {} /\ incident_files = EmptyTable

\* C14: when the insert of the incident fails, handleSubmit ends there: it
\* shows "Failed to submit incident", stays on the page, and no incident, no
\* blob and no evidence-file row is written.
C14_InsertFailureAborts ==
  [][ (submit.pc = "insert" /\ submit'.pc # "insert" /\ last'.res # "done")
        => /\ submit'.pc = "idle"
           /\ submit'.toast = "Failed to submit incident"
           /\ submit'.route = "/report"
           /\ submit'.incident = NULL
           /\ UNCHANGED <<incidents, incident_files, objects>>
    ]_vars

\* C14 witness: a signed-in identity with a file attached submitted the form
\* with no incident type chosen; the insert was refused and nothing is stored.
C14_Witness ==
  /\ session \in users
  /\ last.tbl = "incidents" /\ last.cmd = "INSERT" /\ last.res = "error"
  /\ submit.pc = "idle" /\ submit.toast = "Failed to submit incident"
  /\ Len(submit.files) > 0
  /\ incidents = EmptyTable /\ objects = {} /\ incident_files = EmptyTable

\* C15: when a submission of N files ends and the blob store has taken all
\* but one of them, the incident has exactly N-1 evidence-file rows, it is
\* still there with status 'submitted', and the submission is reported as
\* successful.
C15_OneRejectedFileSkipped ==
  [][ (submit.pc \in {"upload", "record"} /\ submit'.pc = "idle"
         /\ Cardinality(StoredFor(submit', objects')) = Len(submit'.files) - 1)
        => /\ Cardinality(RowsFor(submit', incident_files')) = Len(submit'.files) - 1
           /\ submit'.incident \in DOMAIN incidents'
           /\ incidents'[submit'.incident].status = "submitted"
           /\ submit'.toast = "Incident reported successfully"
           /\ submit'.route = "/dashboard"
    ]_vars

\* C15 witness: two files were submitted, the first too large for the bucket
\* and the second acceptable; one blob and one row are stored.
C15_Witness ==
  /\ submit.pc = "idle" /\ submit.toast = "Incident reported successfully"
  /\ Len(submit.files) = 2
  /\ ~BucketAccepts(submit.files[1]) /\ BucketAccepts(submit.files[2])
  /\ Cardinality(StoredFor(submit, objects)) = 1
  /\ Cardinality(RowsFor(submit, incident_files)) = 1

\* C16: a step adds at most one evidence-file row; it is handleSubmit's step
\* after the upload of the current file succeeded, the blob is stored under
\* the very key the row carries as file_path, and the row's incident_id is
\* the incident this submission inserted.
C16_RowAfterUpload ==
  [][ \A f \in DOMAIN incident_files' \ DOMAIN incident_files :
        /\ submit.pc = "record"
        /\ incident_files'[f].file_path = submit.key
        /\ submit.key[1] = submit.user /\ submit.key[2] = submit.incident
        /\ submit.key[3][2] = fileExt(submit.files[submit.i])
        /\ BucketAccepts(submit.files[submit.i])
        /\ ObjectRow(EvidenceBucket, incident_files'[f].file_path) \in objects
        /\ incident_files'[f].incident_id = submit.incident
        /\ submit.incident \in DOMAIN incidents
        /\ incidents[submit.incident].user_id = submit.user
    ]_vars

\* C16 witness: the submission of an acceptable file has just recorded it.
C16_Witness ==
  /\ last.tbl = "incident_files" /\ last.cmd = "INSERT" /\ last.res = "done"
  /\ last.key.incident_id = submit.incident
  /\ \E f \in DOMAIN incident_files :
       /\ incident_files[f].incident_id = submit.incident
       /\ ObjectRow(EvidenceBucket, incident_files[f].file_path) \in objects

\* C17: the incident handleSubmit inserts has status 'submitted', no threat
\* level, priority_score 0 and the caller as user_id; and the status or the
\* threat level of an incident changes only in an accepted UPDATE of it.
C17_CreatedSubmitted ==
  [][ /\ \A id \in DOMAIN incidents' \ DOMAIN incidents :
           /\ submit.pc = "insert"
           /\ incidents'[id].status = "submitted"
           /\ incidents'[id].threat_level = NULL
           /\ incidents'[id].priority_score = 0
           /\ incidents'[id].user_id = session
           /\ session = submit.user
      /\ \A id \in DOMAIN incidents \cap DOMAIN incidents' :
           (\/ incidents'[id].status # incidents[id].status
            \/ incidents'[id].threat_level # incidents[id].threat_level)
             => /\ last'.tbl = "incidents" /\ last'.cmd = "UPDATE"
                /\ last'.res = "done" /\ last'.key.id = id
    ]_vars

\* C17 witness: the incident of a finished submission was later put under
\* review by an update.
C17_Witness ==
  /\ submit.pc = "idle" /\ submit.toast = "Incident reported successfully"
  /\ submit.incident \in DOMAIN incidents
  /\ incidents[submit.incident].status = "under_review"
  /\ last.tbl = "incidents" /\ last.cmd = "UPDATE" /\ last.res = "done"

(***************************************************************************)
(* Claims about the page AdminDashboard (C18 under SpecTriage, C19 and C20 *)
(* under SpecDash).                                                        *)
(***************************************************************************)
\* view is in the order of list
KeepsOrder(view, list) ==
  \A a, b \in 1..Len(view) :
    a < b => \E i, j \in 1..Len(list) :
               i < j /\ list[i] = view[a] /\ list[j] = view[b]

\* C18: the list a fetch of the dashboard loads holds every incident of the
\* table once, as it is stored, with a higher priority_score before a lower
\* one and, at equal score, the later created_at first; and each of the four
\* views shows its incidents in the order of the list.
C18_TriageListOrdered ==
  [][ (dash.pc = "fetch" /\ dash'.pc = "ready" /\ last'.res = "done")
        => LET L == dash'.incidents
               n == Len(L)
           IN /\ n = Cardinality(DOMAIN incidents)
              /\ {L[k].id : k \in 1..n} = DOMAIN incidents
              /\ \A k \in 1..n : \A c \in DOMAIN incidents[L[k].id] :
                   L[k][c] = incidents[L[k].id][c]
              /\ \A a, b \in 1..n :
                   a < b => \/ L[a].priority_score > L[b].priority_score
                            \/ /\ L[a].priority_score = L[b].priority_score
                               /\ L[a].created_at >= L[b].created_at
              /\ \A f \in FilterInputs : KeepsOrder(filterIncidents(f)', L)
    ]_vars

\* C18 witness: the list holds two incidents of equal priority filed at
\* different times, the later one first, both in the view 'pending'.
C18_Witness ==
  /\ dash.pc = "ready" /\ dash.isAdmin
  /\ Len(dash.incidents) = 2
  /\ dash.incidents[1].priority_score = dash.incidents[2].priority_score
  /\ dash.incidents[1].created_at > dash.incidents[2].created_at
  /\ filterIncidents("pending") = dash.incidents

\* the ids of the rows of a list
IdsOf(list) == {list[k].id : k \in 1..Len(list)}

\* a view is exactly the rows of the list that are in the set want
ExactlyThose(view, want) ==
  /\ IdsOf(view) = IdsOf(dash.incidents) \cap want
  /\ Len(view) = Cardinality(IdsOf(view))
  /\ \A k \in 1..Len(view) : \E i \in 1..Len(dash.incidents) : dash.incidents[i] = view[k]

\* C19: of the loaded list, the view 'critical' is exactly the incidents with
\* threat_level 'critical', 'high' exactly those with threat_level 'high',
\* 'pending' exactly those with status 'submitted' or 'under_review', any
\* other view the whole list; and each count of the page is the length of
\* its view.
C19_ViewsAndCounts ==
  LET L == dash.incidents
      With(test) == {L[k].id : k \in {i \in 1..Len(L) : L[i][test[1]] \in test[2]}}
  IN /\ ExactlyThose(filterIncidents("critical"), With(<<"threat_level", {"critical"}>>))
     /\ ExactlyThose(filterIncidents("high"), With(<<"threat_level", {"high"}>>))
     /\ ExactlyThose(filterIncidents("pending"),
                     With(<<"status", {"submitted", "under_review"}>>))
     /\ \A f \in FilterInputs \ {"critical", "high", "pending"} : filterIncidents(f) = L
     /\ stats.total = Len(filterIncidents("all"))
     /\ stats.critical = Len(filterIncidents("critical"))
     /\ stats.high = Len(filterIncidents("high"))
     /\ stats.pending = Len(filterIncidents("pending"))

\* C19 witness: the list holds an incident that is critical and resolved and
\* one that is under review; the views 'critical' and 'pending' show one each.
C19_Witness ==
  /\ dash.pc = "ready"
  /\ Len(dash.incidents) = 2
  /\ \E a, b \in 1..2 :
       /\ dash.incidents[a].threat_level = "critical"
       /\ dash.incidents[a].status = "resolved"
       /\ dash.incidents[b].status = "under_review"
       /\ filterIncidents("critical") = <<dash.incidents[a]>>
       /\ filterIncidents("pending") = <<dash.incidents[b]>>
  /\ stats.total = 2 /\ stats.critical = 1 /\ stats.pending = 1

\* C20: isAdmin is true only for a caller who holds admin or cert_admin, and
\* only then is the list fetched or loaded; a visitor who is not signed in
\* is sent to /auth, a caller without such a role to /dashboard, each with
\* no list and no request on incidents; and every request of the page that
\* reads or updates incidents comes from a caller who holds admin or
\* cert_admin, through the rendered page.
C20_TriageAdminOnly ==
  [][ /\ dash'.isAdmin => (dash'.user \in users /\ HoldsPrivilege(dash'.user))
      /\ (dash'.pc = "fetch" \/ dash'.incidents # <<>>) => dash'.isAdmin
      /\ (dash.pc = "getUser" /\ dash'.pc # "getUser" /\ session \notin users)
           => /\ dash'.route = "/auth" /\ dash'.pc = "closed"
              /\ ~dash'.isAdmin /\ dash'.incidents = <<>>
              /\ UNCHANGED <<last, incidents>>
      /\ (dash.pc = "role" /\ dash'.pc # "role" /\ ~HoldsPrivilege(dash.user))
           => /\ dash'.route = "/dashboard" /\ dash'.pc = "closed"
              /\ ~dash'.isAdmin /\ dash'.incidents = <<>>
              /\ UNCHANGED incidents
      /\ (dash' # dash /\ last'.tbl = "incidents" /\ last'.cmd \in {"SELECT", "UPDATE"})
           => /\ HoldsPrivilege(session)
              /\ dash.isAdmin
      /\ (incidents' # incidents /\ last'.cmd = "UPDATE")
           => (dash.isAdmin /\ ~dash.loading /\ HoldsPrivilege(session))
    ]_vars

\* C20 witness: a signed-in caller who holds neither role opened the
\* dashboard while an incident was stored, and was sent to /dashboard with
\* nothing loaded.
C20_Witness ==
  /\ session \in users /\ ~HoldsPrivilege(session)
  /\ dash.pc = "closed" /\ dash.route = "/dashboard" /\ dash.toast = "Access Denied"
  /\ ~dash.isAdmin /\ dash.incidents = <<>>
  /\ incidents # EmptyTable

\* C21: the profile that the bootstrap of an identity creates carries the
\* full_name supplied in the sign-up metadata, and the literal 'User' when
\* the metadata carries no full_name.
C21_BootstrapFullName ==
  [][ (IsCreateIdentity(last') /\ last'.res = "done")
      => LET id == last'.key.id
             given == last'.key.raw_user_meta_data.full_name
         IN /\ \E p \in profiles' : p.id = id
            /\ \A p \in profiles' :
                 p.id = id => p.full_name = (IF given = NULL THEN "User" ELSE given) ]_vars

\* an identity was created without a full_name, and one with a full_name
C21_Witness ==
  /\ IsCreateIdentity(last) /\ last.res = "done"
  /\ last.key.raw_user_meta_data.full_name = NULL
  /\ \E p \in profiles : p.id = last.key.id /\ p.full_name = "User"
  /\ \E p \in profiles : p.id # last.key.id /\ p.full_name = "Asha"

\* C22: the Navbar shows the link 'CERT Admin' to a signed-in user exactly
\* when that user holds admin or cert_admin, a user who holds several roles
\* at once included (once the callbacks of the Navbar have been answered).
C22_LinkIffPrivileged ==
  (NavSettled /\ nav.user # NULL /\ nav.user = session)
    => (CertAdminLink <=> HoldsPrivilege(nav.user))

RolesHeld(uid) == {x.role : x \in {y \in BagToSet(user_roles) : y.user_id = uid}}

\* C23: under every interleaving of the callbacks of the Navbar (the answer
\* of getUser, the events of the authentication state, the answers of the
\* role lookups), once no callback is pending the stored userRole is a role
\* of the user currently signed in: a role fetched for a previous user, or
\* left over after a sign-out, is not shown for another user.  Stated for
\* the users who hold exactly one role, whose lookup returns that role.
C23_RoleOfSignedInUser ==
  (NavSettled /\ session # NULL /\ Cardinality(RolesHeld(session)) = 1)
    => nav.userRole \in RolesHeld(session)

\* C24: checkAdminAccess grants access (isAdmin set, the list fetched next)
\* to every authenticated caller who holds admin or cert_admin or both.
C24_PrivilegedGranted ==
  [][ (dash.pc = "role" /\ dash'.pc # "role" /\ HoldsPrivilege(dash.user))
      => (dash'.isAdmin /\ dash'.pc = "fetch") ]_vars

\* C25: within one submission the attached files are stored under distinct
\* keys owner/incident/timestamp.extension: when a file is about to be
\* uploaded its key is not occupied by another file of the submission, two
\* files of the same extension processed in the same millisecond included.
C25_KeyFree ==
  submit.pc = "upload" => ObjectRow(EvidenceBucket, submit.key) \notin objects

\* C26: when handleSubmit ends with 'Failed to submit incident' no incident
\* created by the call exists, and when it ends with 'Incident reported
\* successfully' exactly one does, also when an upload or the insert of an
\* evidence-file row throws after the incident was inserted.  (A call
\* starts with no incident in the table, so the incidents there when it ends
\* are those it created.)
C26_ToastMatchesIncident ==
  [][ (submit.pc # "idle" /\ submit'.pc = "idle")
      => /\ submit'.toast = "Failed to submit incident"
              => incidents' = EmptyTable
         /\ submit'.toast = "Incident reported successfully"
              => Cardinality(DOMAIN incidents') = 1 ]_vars

\* C27: a caller who holds neither admin nor cert_admin cannot, by any
\* update, move an incident they own to another identity nor change the id
\* of their own profile: after every accepted update by such a caller the
\* row is still owned by that caller.
C27_OwnerKept ==
  [][ (last'.cmd = "UPDATE" /\ last'.res = "done" /\ ~HoldsPrivilege(last'.uid))
      => /\ last'.tbl = "incidents"
              => /\ incidents[last'.key.id].user_id = last'.uid
                 /\ incidents'[last'.key.id].user_id = last'.uid
                 /\ \A i \in DOMAIN incidents :
                      incidents'[i].user_id = incidents[i].user_id
         /\ last'.tbl = "profiles"
              => /\ last'.key.id = last'.uid
                 /\ {p.id : p \in profiles'} = {p.id : p \in profiles} ]_vars

\* an unprivileged owner's update of their own incident was accepted
C27_Witness ==
  /\ last.cmd = "UPDATE" /\ last.tbl = "incidents" /\ last.res = "done"
  /\ ~HoldsPrivilege(last.uid)
  /\ incidents[last.key.id].user_id = last.uid

\* every reference of a row names a row that exists
RefInt ==
  /\ \A f \in DOMAIN incident_files : incident_files[f].incident_id \in DOMAIN incidents
  /\ \A i \in DOMAIN incidents :
       incidents[i].user_id \in users /\ incidents[i].assigned_to \in users \cup {NULL}
  /\ \A p \in profiles : p.id \in users
  /\ \A x \in BagToSet(user_roles) :
       x.user_id \in users /\ x.assigned_by \in users \cup {NULL}
  /\ \A a \in BagToSet(audit_logs) : a.user_id \in users \cup {NULL}

\* a row of another identity, or of the audit log, names I
RefByOther(I) ==
  \/ \E x \in BagToSet(user_roles) : x.user_id # I /\ x.assigned_by = I
  \/ \E i \in DOMAIN incidents : incidents[i].user_id # I /\ incidents[i].assigned_to = I
  \/ \E a \in BagToSet(audit_logs) : a.user_id = I

IsDeleteIdentity(r) == r.tbl = "auth.users" /\ r.cmd = "DELETE"

\* C28: referential integrity holds in every state, also after the
\* deletion of an identity: every evidence file names an existing incident
\* and every incident, profile and role assignment an existing identity; a
\* deletion removes the identity's profile, role assignments, incidents and
\* their evidence files; and an identity that another row still names in
\* assigned_to, assigned_by or the audit log's user_id cannot be deleted.
C28_ReferentialIntegrity ==
  [][ /\ RefInt /\ RefInt'
      /\ (IsDeleteIdentity(last') /\ last'.res = "done")
           => LET I == last'.key.id
              IN /\ ~RefByOther(I)
                 /\ I \notin users'
                 /\ \A p \in profiles' : p.id # I
                 /\ \A x \in BagToSet(user_roles') : x.user_id # I
                 /\ \A i \in DOMAIN incidents' : incidents'[i].user_id # I
                 /\ \A f \in DOMAIN incident_files :
                      incidents[incident_files[f].incident_id].user_id = I
                        => f \notin DOMAIN incident_files'
      /\ (IsDeleteIdentity(last') /\ last'.res = "error")
           => UNCHANGED <<users, profiles, user_roles, incidents, incident_files,
                          audit_logs>> ]_vars

\* the deletion of an identity that an incident of another identity names
\* in assigned_to was refused while evidence is on file
C28_Witness ==
  /\ IsDeleteIdentity(last) /\ last.res = "error"
  /\ \E i \in DOMAIN incidents :
       incidents[i].assigned_to = last.key.id /\ incidents[i].user_id # last.key.id
  /\ incident_files # EmptyTable

\* C29: the bootstrap writes only the id and the full_name of the new
\* profile: rank and unit of the sign-up form, sent as metadata, are not
\* copied, so rank, unit and phone of the profile are NULL until the user
\* updates their own profile.
C29_BootstrapWritesTwoColumns ==
  [][ /\ (IsCreateIdentity(last') /\ last'.res = "done")
           => \A p \in profiles' :
                p.id = last'.key.id
                  => p.rank = NULL /\ p.unit = NULL /\ p.phone = NULL
      /\ \A p \in profiles, q \in profiles' :
           (p.id = q.id /\ <<q.rank, q.unit, q.phone>> # <<p.rank, p.unit, p.phone>>)
             => /\ last'.cmd = "UPDATE" /\ last'.tbl = "profiles"
                /\ last'.res = "done" /\ last'.uid = p.id ]_vars

\* an identity signed up through the form with a rank and a unit, and its
\* profile has neither
C29_Witness ==
  /\ IsCreateIdentity(last) /\ last.res = "done"
  /\ last.key.raw_user_meta_data.rank = "Major"
  /\ last.key.raw_user_meta_data.unit = "Signals"
  /\ auth.toast = "Account created!"
  /\ \E p \in profiles : p.id = last.key.id /\ p.rank = NULL /\ p.unit = NULL

\* C30: every run of handleSubmit and of handleAuth, each awaited call
\* answering or throwing, ends with loading = false on every path; the run
\* has loading = true, which disables the submit button, so that no second
\* run starts before the first has ended.
C30_HandlersTerminate ==
  /\ submit.loading ~> ~submit.loading
  /\ auth.loading ~> ~auth.loading
  /\ [](submit.pc # "idle" => submit.loading)
  /\ [](auth.pc # "idle" => auth.loading)
  /\ [][ /\ (submit.pc = "idle" /\ submit'.pc # "idle") => ~submit.loading
         /\ (auth.pc = "idle" /\ auth'.pc # "idle") => ~auth.loading ]_vars

\* a submission with a file is waiting for the upload, after a sign-in
\* through the page Auth
C30_Witness ==
  /\ submit.pc = "upload" /\ submit.loading
  /\ session # NULL

====
